---- MODULE Spec2Model ----
(***************************************************************************)
(* Model of the bulk file retention analyzer:                              *)
(*   sarvam_client.py     the remote extraction job of one file            *)
(*   llm_client.py        the classification request of one document       *)
(*   retention_engine.py  the batch driver (semaphore, as_completed)       *)
(*   database.py          the files table and the resumability filter      *)
(*   utils.py             exponential_backoff, safe_json_parse             *)
(*   action_engine.py     the moves to .trash and .archive                 *)
(* The specifications share the variables: SpecExtract drives one         *)
(* extract_text call, SpecClassify one classify_document call,             *)
(* SpecBackoff one exponential_backoff call, Spec one process_all call on  *)
(* a fresh table under every cap (SpecFair: with fair scheduling),         *)
(* SpecRuns successive process_all calls on one table under the default    *)
(* cap, SpecNotify one process_all call with a progress callback that      *)
(* raises, SpecPoll the _poll_job coroutines of concurrent files on one    *)
(* clock, SpecActions one ActionEngine.apply_all call.                     *)
(***************************************************************************)
EXTENDS Integers, Sequences, FiniteSets, TLC

VARIABLES
    \* ---- sarvam_client.extract_text, one call ----
    xpc,        \* position of the coroutine
    xcfg,       \* Config.SARVAM_POLLING_TIMEOUT: [set, secs]; set = FALSE when
                \* the class has no such attribute
    xjob,       \* job_id returned by _create_job ("" before)
    xelapsed,   \* time.time() - start_time inside _poll_job
    xcalls,     \* the remote requests issued so far, in order
    xlast,      \* outcome of the latest remote request
    xzip,       \* the entries of the archive fetched (<<>> before, or if none was)
    xfail,      \* what made the call fail ("none" while it has not)
    xres,       \* the ExtractionResult returned
    xexc,       \* exception class that escaped extract_text ("none")
    \* ---- llm_client.classify_document, one call ----
    cpc,        \* position of the coroutine
    cattempt,   \* the loop variable `attempt`
    cwaits,     \* the waits slept so far, in order
    clast,      \* outcome of the latest request
    chdr,       \* the Retry-After header of the latest response
    cbody,      \* the body shape of the latest response ("none" unless a 200)
    cdict,      \* the object its content parsed to (EmptyDict unless it did)
    cres,       \* the RetentionDecision returned
    cexc,       \* exception class that escaped classify_document ("none")
    \* ---- retention_engine.process_all over successive runs, database.py ----
    host,       \* what the host does with the engine: how many times it calls
                \* process_all ([calls]), the caps it passes ([caps]) and the
                \* progress callback it passes ([callback]: "none", one that
                \* "returns", one that "raises" on every call)
    bphase,     \* "idle" before a run, "running", "returned", "raised"
    runs,       \* process_all calls started so far
    limit,      \* `concurrency or Config.MAX_CONCURRENCY`
    files,      \* the scan handed to the current run: path -> fingerprint (0: no file)
    sameScan,   \* the current run got the same scan as the run before it
    prevClean,  \* no pipeline of any run before the current one failed
    sem,        \* free slots of the semaphore
    tpc,        \* per path: position of its process_file task
    ttext,      \* per path: the text its extraction returned (a local of the
                \* running task, "" outside it)
    tdec,       \* per path: its decision (a local of the running task)
    tev,        \* per path: the statuses _notify has handed to the callback
    results,    \* the list process_all is building, in completion order
    store,      \* the files table as the shared connection sees it: path -> row
    committed,  \* the files table as committed
    \* ---- utils.exponential_backoff, one call ----
    kpc,        \* "idle", "call" or "returned"
    kattempt,   \* the arguments attempt, base and cap
    kbase,
    kcap,
    kdelay,     \* the delay returned
    \* ---- the _poll_job coroutines of one batch, running on one clock ----
    now,        \* time.time()
    jcfg,       \* Config.SARVAM_POLLING_TIMEOUT, as xcfg
    jpc,        \* per job: position of its _poll_job
    jstart,     \* per job: its local start_time
    jwake,      \* per job: when its asyncio.sleep(2.0) ends (0 outside a sleep)
    \* ---- action_engine.ActionEngine.apply_all, one call ----
    apc,        \* "idle", "applying" or "returned"
    adry,       \* self.dry_run
    afilter,    \* the action_filter argument (NoFilter: None)
    arecs,      \* the records argument
    afs,        \* the filesystem: the folders that exist and what is at each location
    aresults,   \* the ActionResults so far, in order
    asummary    \* the status counts so far

xvars == <<xpc, xcfg, xjob, xelapsed, xcalls, xlast, xzip, xfail, xres, xexc>>

cvars == <<cpc, cattempt, cwaits, clast, chdr, cbody, cdict, cres, cexc>>

bvars == <<host, bphase, runs, limit, files, sameScan, prevClean, sem, tpc, ttext, tdec,
           tev, results, store, committed>>

kvars == <<kpc, kattempt, kbase, kcap, kdelay>>

jvars == <<now, jcfg, jpc, jstart, jwake>>

avars == <<apc, adry, afilter, arecs, afs, aresults, asummary>>

vars == <<xvars, cvars, bvars, kvars, jvars, avars>>

(***************************************************************************)
(* Bounds of the model.                                                    *)
(***************************************************************************)
MaxBudget == 4      \* largest polling budget B tried, in seconds
MaxLatency == 1     \* longest time one status request takes, in seconds
MaxEntries == 2     \* most entries of a result archive
MaxPaths == 2       \* paths a scan may hold a file at
MaxHashes == 2      \* distinct file contents (fingerprints)
MaxRuns == 3        \* successive runs of process_all
MaxLimit == 2       \* largest concurrency cap K
MaxAttempt == 7     \* largest attempt number handed to exponential_backoff
MaxBase == 2        \* largest base handed to exponential_backoff
MaxCap == 31        \* largest cap handed to exponential_backoff
MaxJobs == 2        \* remote jobs polled concurrently
MaxClock == 3       \* how far the clock runs, in seconds
MaxRecords == 2     \* most records handed to apply_all
MaxSuffix == 1      \* largest _<counter> suffix already taken in a destination folder

(***************************************************************************)
(* Program constants.                                                      *)
(***************************************************************************)
PollInterval == 2   \* asyncio.sleep(2.0) between polls
MAX_CONCURRENCY == 5     \* Config.MAX_CONCURRENCY, the default cap
MAX_RETRIES == 3    \* Config.MAX_RETRIES default
TEXT_KEPT == 500    \* extraction.text[:500] in FileRecord.from_scan_and_decision

\* Config.SARVAM_POLLING_TIMEOUT is read by _poll_job; config.py defines no
\* such attribute, so it exists only when the host has set it on the class.
PollingTimeoutConfigs ==
    {[set |-> TRUE, secs |-> b] : b \in 0 .. MaxBudget} \cup {[set |-> FALSE, secs |-> 0]}

NoResult == [text |-> "", stats |-> [none |-> TRUE]]

(***************************************************************************)
(* models.RetentionDecision.  confidence is kept in hundredths (0 .. 100   *)
(* for 0.0 .. 1.0).                                                        *)
(***************************************************************************)
Categories == {"legal", "financial", "operational", "personal", "ephemeral", "unknown"}
Actions == {"delete", "archive", "retain", "review"}

Decision(score, cat, act, conf, why) ==
    [retention_score |-> score, category |-> cat, suggested_action |-> act,
     confidence |-> conf, reasoning |-> why]

\* a reasoning text: its wording and what it cites (field names of the
\* response, the status code, the exception text, ...)
Reason(msg) == [msg |-> msg, fields |-> {}]
ReasonCiting(msg, fields) == [msg |-> msg, fields |-> fields]

\* RetentionDecision.fallback(reason)
Fallback(reason) == Decision(50, "unknown", "review", 0, reason)

NoDecision == Decision(0, "none", "none", 0, Reason(""))

\* a JSON value: a number n, a string s, null, or no such key
Num(n) == [t |-> "num", n |-> n, s |-> ""]
Str(x) == [t |-> "str", n |-> 0, s |-> x]
Null == [t |-> "null", n |-> 0, s |-> ""]
Absent == [t |-> "absent", n |-> 0, s |-> ""]

Required == {"retention_score", "category", "suggested_action", "confidence", "reasoning"}

\* the objects a response's content may parse to
ScoreVals == {Num(-1), Num(0), Num(100), Num(101), Str("high"), Absent}
CategoryVals == {Str("legal"), Str("unknown"), Str("misc"), Null, Absent}
ActionVals == {Str("delete"), Str("review"), Str("shred"), Absent}
ConfidenceVals == {Num(0), Num(100), Num(150), Num(-10), Str("sure"), Absent}
ReasoningVals == {Str("because"), Null, Absent}

ParsedDicts ==
    [retention_score : ScoreVals, category : CategoryVals, suggested_action : ActionVals,
     confidence : ConfidenceVals, reasoning : ReasoningVals]

EmptyDict ==
    [retention_score |-> Absent, category |-> Absent, suggested_action |-> Absent,
     confidence |-> Absent, reasoning |-> Absent]

\* the Retry-After header of a response: absent, a number of seconds, or a
\* text float() cannot parse (an HTTP-date)
RetryAfterHeaders ==
    {[kind |-> "absent", n |-> 0], [kind |-> "number", n |-> 0],
     [kind |-> "number", n |-> 5], [kind |-> "text", n |-> 0]}

NoHeader == [kind |-> "absent", n |-> 0]

(***************************************************************************)
(* Outcomes of one HTTP request.  raise_for_status() turns a 4xx/5xx       *)
(* status into HTTPStatusError; a transport failure is a RequestError      *)
(* (TimeoutException is a subclass of it); response.json() raises          *)
(* ValueError on a body that is not JSON.                                  *)
(***************************************************************************)
StatusErrors == {"h429", "h5xx", "h4xx"}
TransportErrors == {"timeout", "connerr"}
Retryable == {"h429", "h5xx", "timeout"}

TransportCause(o) == IF o = "timeout" THEN "transport_timeout" ELSE "connection_error"

ExceptionClasses ==
    {"SarvamClientError", "HTTPStatusError", "TimeoutException", "RequestError",
     "ValueError", "AttributeError", "IOError", "BadZipFile", "UnicodeDecodeError",
     "IndexError", "OperationalError"}

\* what a helper hands back: no exception, or an exception with its message
\* and the condition that caused it
Ok == [exc |-> "none", msg |-> "", cause |-> "none"]
Exc(e, m, c) == [exc |-> e, msg |-> m, cause |-> c]

(***************************************************************************)
(* Response shapes.  A dict of locations ({name: {"file_url": ...}}) is a  *)
(* sequence of <<key, value>> in insertion order with distinct keys; the   *)
(* key is the uploaded file's own name or another name.                    *)
(***************************************************************************)
UrlVals == {"dict_url", "dict_nourl", "str_url", "str_empty", "other"}

UrlDicts ==
    {<<>>} \cup
    {<<<<k, v>>>> : k \in {"name", "other"}, v \in UrlVals} \cup
    {<<<<k, v>>, <<IF k = "name" THEN "other" ELSE "name", w>>>> :
        k \in {"name", "other"}, v \in UrlVals, w \in UrlVals}

\* isinstance(info, dict) -> info.get("file_url"); isinstance(info, str) -> info;
\* "" stands for every falsy value (None, "")
UrlOf(v) == IF v \in {"dict_url", "str_url"} THEN "u" ELSE ""

ByName(d) ==
    IF \E i \in 1 .. Len(d) : d[i][1] = "name"
    THEN (CHOOSE i \in 1 .. Len(d) : d[i][1] = "name")
    ELSE 0

\* extract_text, lines 264-282: the entry under the file's name, else the
\* first value of the dict
ResolveUploadUrl(d) ==
    LET byName == IF ByName(d) = 0 THEN "" ELSE UrlOf(d[ByName(d)][2])
    IN  IF byName = "" /\ Len(d) > 0 /\ d[1][2] \in {"dict_url", "dict_nourl", "str_url", "str_empty"}
        THEN UrlOf(d[1][2])
        ELSE byName

\* _get_download_url_and_extract, lines 191-211: the first value only
ResolveDownloadUrl(d) == IF Len(d) = 0 THEN "" ELSE UrlOf(d[1][2])

(***************************************************************************)
(* The result archive: a sequence of entries in namelist() order.          *)
(***************************************************************************)
Exts == {"md", "json", "other"}
Contents == {"", "t1", "t2", "undecodable"}
Entries == [ext : Exts, content : Contents]
SeqsUpTo(S, n) == UNION {[1 .. k -> S] : k \in 0 .. n}
Archives == SeqsUpTo(Entries, MaxEntries)

FirstWith(z, e) == CHOOSE i \in 1 .. Len(z) :
    /\ z[i].ext = e
    /\ \A j \in 1 .. i - 1 : z[j].ext # e

HasExt(z, e) == \E i \in 1 .. Len(z) : z[i].ext = e

\* lines 222-232: md_files[0], else json_files[0], else namelist()[0], else None (0)
JsonBeforeMarkdown(z) ==
    IF HasExt(z, "json") THEN FirstWith(z, "json")
    ELSE IF HasExt(z, "md") THEN FirstWith(z, "md")
    ELSE IF Len(z) > 0 THEN 1
    ELSE 0

TargetFile(z) ==
    IF HasExt(z, "md") THEN FirstWith(z, "md")
    ELSE IF HasExt(z, "json") THEN FirstWith(z, "json")
    ELSE IF Len(z) > 0 THEN 1
    ELSE 0

(***************************************************************************)
(* The helpers of sarvam_client.py: which exception each raises on an      *)
(* outcome of its request.                                                 *)
(***************************************************************************)
\* _create_job: catches HTTPStatusError and RequestError
CreateOutcomes ==
    StatusErrors \cup TransportErrors \cup
    {"nonjson", "not_dict", "no_job_id", "empty_job_id", "job"}

CreateJobRaises(o) ==
    IF o \in StatusErrors THEN Exc("SarvamClientError", "Create job failed", "http_status")
    ELSE IF o \in TransportErrors
        THEN Exc("SarvamClientError", "Network error", TransportCause(o))
    ELSE IF o = "nonjson" THEN Exc("ValueError", "JSONDecodeError", "malformed_body")
    ELSE IF o = "not_dict" THEN Exc("AttributeError", "has no attribute get", "malformed_body")
    ELSE IF o \in {"no_job_id", "empty_job_id"}
        THEN Exc("SarvamClientError", "Job creation response missing job_id", "missing_job_id")
    ELSE Ok

\* _get_upload_urls: catches HTTPStatusError only; then extract_text resolves
\* the location
\* (an outcome is its kind o and, for kind "urls", the dict d of the body)
UploadUrlOutcomes == StatusErrors \cup TransportErrors \cup {"nonjson", "not_dict", "urls"}

GetUploadUrlsRaises(o, d) ==
    IF o \in StatusErrors
        THEN Exc("SarvamClientError", "Upload URL request failed", "http_status")
    ELSE IF o = "timeout" THEN Exc("TimeoutException", "timed out", TransportCause(o))
    ELSE IF o = "connerr" THEN Exc("RequestError", "connection failed", TransportCause(o))
    ELSE IF o = "nonjson" THEN Exc("ValueError", "JSONDecodeError", "malformed_body")
    ELSE IF o = "not_dict" THEN Exc("AttributeError", "has no attribute get", "malformed_body")
    ELSE IF ResolveUploadUrl(d) = ""
        THEN Exc("SarvamClientError", "No upload URL found", "missing_upload_url")
    ELSE Ok

\* _upload_to_blob: catches HTTPStatusError, RequestError and IOError; the file
\* is read before the PUT is sent
UploadOutcomes == StatusErrors \cup TransportErrors \cup {"unreadable_file", "ok"}

UploadToBlobRaises(o) ==
    IF o = "unreadable_file" THEN Exc("SarvamClientError", "Blob upload failed", "io_error")
    ELSE IF o \in StatusErrors THEN Exc("SarvamClientError", "Blob upload failed", "http_status")
    ELSE IF o \in TransportErrors
        THEN Exc("SarvamClientError", "Blob upload failed", TransportCause(o))
    ELSE Ok

\* _start_job: catches HTTPStatusError only, and parses the acknowledgement
StartOutcomes == StatusErrors \cup TransportErrors \cup {"nonjson", "ok"}

StartJobRaises(o) ==
    IF o \in StatusErrors THEN Exc("SarvamClientError", "Start job failed", "http_status")
    ELSE IF o = "timeout" THEN Exc("TimeoutException", "timed out", TransportCause(o))
    ELSE IF o = "connerr" THEN Exc("RequestError", "connection failed", TransportCause(o))
    ELSE IF o = "nonjson" THEN Exc("ValueError", "JSONDecodeError", "malformed_body")
    ELSE Ok

\* _poll_job, one status request: HTTPStatusError is logged and polling goes
\* on; every other exception leaves the loop
JobStates == {"Created", "Running", "Completed", "Failed", "Unknown"}
PollOutcomes == StatusErrors \cup TransportErrors \cup {"nonjson"} \cup JobStates

PollIgnoresFailed(o) ==
    IF o = "timeout" THEN Exc("TimeoutException", "timed out", TransportCause(o))
    ELSE IF o = "connerr" THEN Exc("RequestError", "connection failed", TransportCause(o))
    ELSE IF o = "nonjson" THEN Exc("ValueError", "JSONDecodeError", "malformed_body")
    ELSE Ok

PollRaises(o) ==
    IF o = "timeout" THEN Exc("TimeoutException", "timed out", TransportCause(o))
    ELSE IF o = "connerr" THEN Exc("RequestError", "connection failed", TransportCause(o))
    ELSE IF o = "nonjson" THEN Exc("ValueError", "JSONDecodeError", "malformed_body")
    ELSE IF o = "Failed" THEN Exc("SarvamClientError", "Job failed: error_message", "remote_failed")
    ELSE Ok

\* line 151: elapsed > Config.SARVAM_POLLING_TIMEOUT
TimedOutEarly(elapsed, budget) == elapsed + PollInterval > budget

TimedOut(elapsed, budget) == elapsed > budget

\* _get_download_url_and_extract, the download-files request: HTTPStatusError
\* and, through `except Exception`, everything else become SarvamClientError
DownloadUrlOutcomes == StatusErrors \cup TransportErrors \cup {"nonjson", "not_dict", "urls"}

DownloadUrlRaises(o) ==
    IF o \in StatusErrors THEN Exc("SarvamClientError", "Download failed", "http_status")
    ELSE IF o \in TransportErrors
        THEN Exc("SarvamClientError", "Content extraction error", TransportCause(o))
    ELSE IF o \in {"nonjson", "not_dict"}
        THEN Exc("SarvamClientError", "Content extraction error", "malformed_body")
    ELSE Ok

\* the archive fetch and the unpacking
\* (an outcome is its kind o and, for kind "archive", the archive z)
FetchOutcomes == StatusErrors \cup TransportErrors \cup {"bad_zip", "archive"}

FetchZipRaises(o, z) ==
    IF o \in StatusErrors THEN Exc("SarvamClientError", "Download failed", "http_status")
    ELSE IF o \in TransportErrors
        THEN Exc("SarvamClientError", "Content extraction error", TransportCause(o))
    ELSE IF o = "bad_zip" THEN Exc("SarvamClientError", "Invalid ZIP file received.", "bad_zip")
    ELSE IF TargetFile(z) # 0 /\ z[TargetFile(z)].content = "undecodable"
        THEN Exc("SarvamClientError", "Content extraction error", "undecodable_entry")
    ELSE Ok

\* the text _get_download_url_and_extract returns for an archive it could read
ExtractedText(z) == IF TargetFile(z) = 0 THEN "" ELSE z[TargetFile(z)].content

(***************************************************************************)
(* extract_text's two handlers: `except SarvamClientError` and             *)
(* `except Exception`.  Both build ExtractionResult(text="", stats=        *)
(* {"error": str(e)}); an exception neither catches escapes to the caller. *)
(***************************************************************************)
CatchesOnlyClientError(e) == e = "SarvamClientError"

ExtractTextCatches(e) == e = "SarvamClientError" \/ e \in ExceptionClasses

ErrorResult(msg) == [text |-> "", stats |-> [error |-> msg]]

CompletedResult(job, text) ==
    [text |-> text, stats |-> [job_id |-> job, status |-> "Completed"]]

\* leave extract_text with the exception r
Raise(r) ==
    /\ xfail' = r.cause
    /\ IF ExtractTextCatches(r.exc)
       THEN /\ xpc' = "returned"
            /\ xres' = ErrorResult(r.msg)
            /\ xexc' = "none"
       ELSE /\ xpc' = "raised"
            /\ xres' = NoResult
            /\ xexc' = r.exc

\* go on with the next step
Goto(step) ==
    /\ xpc' = step
    /\ UNCHANGED <<xfail, xres, xexc>>

\* one request of a step that is not a poll: issue it, then fail or go on
Step(name, o, r, next) ==
    /\ xcalls' = Append(xcalls, name)
    /\ xlast' = o
    /\ IF r.exc # "none" THEN Raise(r) ELSE Goto(next)

CreateJob ==
    /\ xpc = "create"
    /\ \E o \in CreateOutcomes :
        /\ Step("create", o, CreateJobRaises(o), "upload_urls")
        /\ xjob' = IF CreateJobRaises(o).exc = "none" THEN "job1" ELSE xjob
    /\ UNCHANGED <<xzip, xcfg, xelapsed, cvars, bvars, kvars, jvars, avars>>

GetUploadUrls ==
    /\ xpc = "upload_urls"
    /\ \E o \in UploadUrlOutcomes, d \in UrlDicts :
        /\ o = "urls" \/ d = <<>>
        /\ Step("upload_urls", o, GetUploadUrlsRaises(o, d), "upload")
    /\ UNCHANGED <<xzip, xcfg, xjob, xelapsed, cvars, bvars, kvars, jvars, avars>>

\* an unreadable file fails before any request is sent
UploadToBlob ==
    /\ xpc = "upload"
    /\ \E o \in UploadOutcomes :
        /\ xcalls' = IF o = "unreadable_file" THEN xcalls ELSE Append(xcalls, "upload")
        /\ xlast' = o
        /\ IF UploadToBlobRaises(o).exc # "none"
           THEN Raise(UploadToBlobRaises(o))
           ELSE Goto("start")
    /\ UNCHANGED <<xzip, xcfg, xjob, xelapsed, cvars, bvars, kvars, jvars, avars>>

\* start_time = time.time() is taken when _poll_job is entered
StartJob ==
    /\ xpc = "start"
    /\ \E o \in StartOutcomes :
        Step("start", o, StartJobRaises(o), "poll")
    /\ xelapsed' = 0
    /\ UNCHANGED <<xzip, xcfg, xjob, cvars, bvars, kvars, jvars, avars>>

\* the loop head of _poll_job when the class has no SARVAM_POLLING_TIMEOUT:
\* the comparison raises AttributeError
PollNoBudget ==
    /\ xpc = "poll"
    /\ ~xcfg.set
    /\ Raise(Exc("AttributeError", "Config has no attribute SARVAM_POLLING_TIMEOUT",
                 "config_missing"))
    /\ UNCHANGED <<xzip, xcfg, xjob, xelapsed, xcalls, xlast, cvars, bvars, kvars, jvars, avars>>

\* the loop head finds the budget exceeded
PollTimeout ==
    /\ xpc = "poll"
    /\ xcfg.set
    /\ TimedOut(xelapsed, xcfg.secs)
    /\ Raise(Exc("SarvamClientError", "Job timed out", "poll_timeout"))
    /\ UNCHANGED <<xzip, xcfg, xjob, xelapsed, xcalls, xlast, cvars, bvars, kvars, jvars, avars>>

\* where _poll_job goes after a status request that raised nothing it lets out
AfterPollNotFailed(o) == IF o \in {"Completed", "Running"} THEN "download_url" ELSE "poll"

AfterPoll(o) == IF o = "Completed" THEN "download_url" ELSE "poll"

\* one iteration: the status request, which takes d seconds, then the sleep
PollJob ==
    /\ xpc = "poll"
    /\ xcfg.set
    /\ ~TimedOut(xelapsed, xcfg.secs)
    /\ \E o \in PollOutcomes, d \in 0 .. MaxLatency :
        /\ xcalls' = Append(xcalls, "status")
        /\ xlast' = o
        /\ IF PollRaises(o).exc # "none"
           THEN Raise(PollRaises(o)) /\ xelapsed' = xelapsed + d
           ELSE /\ Goto(AfterPoll(o))
                /\ xelapsed' = IF o = "Completed" THEN xelapsed + d
                               ELSE xelapsed + d + PollInterval
    /\ UNCHANGED <<xzip, xcfg, xjob, cvars, bvars, kvars, jvars, avars>>

GetDownloadUrl ==
    /\ xpc = "download_url"
    /\ \E o \in DownloadUrlOutcomes, d \in UrlDicts :
        /\ o = "urls" \/ d = <<>>
        /\ xcalls' = Append(xcalls, "download_url")
        /\ xlast' = o
        /\ IF DownloadUrlRaises(o).exc # "none"
           THEN Raise(DownloadUrlRaises(o))
           ELSE IF ResolveDownloadUrl(d) = ""
           THEN \* `return ""`: no location in the response
                /\ xpc' = "returned"
                /\ xres' = CompletedResult(xjob, "")
                /\ xfail' = "missing_download_url"
                /\ xexc' = "none"
           ELSE Goto("fetch_zip")
    /\ UNCHANGED <<xzip, xcfg, xjob, xelapsed, cvars, bvars, kvars, jvars, avars>>

FetchZip ==
    /\ xpc = "fetch_zip"
    /\ \E o \in FetchOutcomes, z \in Archives :
        /\ o = "archive" \/ z = <<>>
        /\ xcalls' = Append(xcalls, "fetch_zip")
        /\ xlast' = o
        /\ xzip' = z
        /\ IF FetchZipRaises(o, z).exc # "none"
           THEN Raise(FetchZipRaises(o, z))
           ELSE /\ xpc' = "returned"
                /\ xres' = CompletedResult(xjob, ExtractedText(z))
                /\ xfail' = IF TargetFile(z) = 0 THEN "empty_archive" ELSE "none"
                /\ xexc' = "none"
    /\ UNCHANGED <<xcfg, xjob, xelapsed, cvars, bvars, kvars, jvars, avars>>

(***************************************************************************)
(* database.py: the files table.  A row is keyed by file_path; every row   *)
(* the pipeline writes has processed_at set (now_utc()).                    *)
(***************************************************************************)
Paths == 1 .. MaxPaths
Hashes == 1 .. MaxHashes

NoRow == [file_hash |-> 0, extracted_text |-> "", decision |-> NoDecision,
          processed_at |-> FALSE]

\* no process_all has been called; the table is empty (init_db)
BatchStart ==
    /\ bphase = "idle"
    /\ runs = 0
    /\ limit = 1
    /\ files = [p \in Paths |-> 0]
    /\ sameScan = FALSE
    /\ prevClean = TRUE
    /\ sem = 0
    /\ tpc = [p \in Paths |-> "none"]
    /\ ttext = [p \in Paths |-> ""]
    /\ tdec = [p \in Paths |-> NoDecision]
    /\ tev = [p \in Paths |-> <<>>]
    /\ results = <<>>
    /\ store = [p \in Paths |-> NoRow]
    /\ committed = [p \in Paths |-> NoRow]

\* the engine is not used
BatchIdle ==
    /\ host = [calls |-> 0, caps |-> {}, callback |-> "none"]
    /\ BatchStart

(***************************************************************************)
(* action_engine.py: the part of the filesystem an ActionEngine touches.   *)
(* A location is a name in the source folder (dir ".", n = 0) or in one of *)
(* its sibling folders .trash and .archive, where n > 0 stands for the     *)
(* name <stem>_<n><suffix>.  What is at a location is a file, named by     *)
(* where it was first ("a", "b": the source files; "old": a file that was  *)
(* in a destination folder already), or "none".                            *)
(***************************************************************************)
Names == {"a", "b"}
Folders == {".trash", ".archive"}
Locs == [dir : {"."} \cup Folders, name : Names, n : 0 .. MaxSuffix + MaxRecords]
Source(nm) == [dir |-> ".", name |-> nm, n |-> 0]
Dest(folder, nm, k) == [dir |-> folder, name |-> nm, n |-> k]

\* action_filter: None (given = FALSE) or a list of actions, possibly empty
NoFilter == [given |-> FALSE, actions |-> {}]
NoDest == [dir |-> "", name |-> "", n |-> 0]
NoSummary == [success |-> 0, dry_run |-> 0, skipped |-> 0, error |-> 0]
NoFiles == [dirs |-> {}, at |-> [l \in Locs |-> "none"]]

\* no apply_all call is running
ActionsIdle ==
    /\ apc = "idle"
    /\ adry = TRUE
    /\ afilter = NoFilter
    /\ arecs = <<>>
    /\ afs = NoFiles
    /\ aresults = <<>>
    /\ asummary = NoSummary

Jobs == 1 .. MaxJobs

\* no _poll_job is being watched
PollersIdle ==
    /\ now = 0
    /\ jcfg = [set |-> FALSE, secs |-> 0]
    /\ jpc = [j \in Jobs |-> "idle"]
    /\ jstart = [j \in Jobs |-> 0]
    /\ jwake = [j \in Jobs |-> 0]

\* no exponential_backoff call of its own is running
BackoffIdle ==
    /\ kpc = "idle"
    /\ kattempt = 0
    /\ kbase = 1
    /\ kcap = 1
    /\ kdelay = 0

\* no classify_document call is running
ClassifyIdle ==
    /\ cpc = "idle"
    /\ cattempt = 0
    /\ cwaits = <<>>
    /\ clast = "none"
    /\ chdr = NoHeader
    /\ cbody = "none"
    /\ cdict = EmptyDict
    /\ cres = NoDecision
    /\ cexc = "none"

InitExtract ==
    /\ ClassifyIdle
    /\ BackoffIdle
    /\ BatchIdle
    /\ PollersIdle
    /\ ActionsIdle
    /\ xpc = "create"
    /\ xcfg \in PollingTimeoutConfigs
    /\ xjob = ""
    /\ xelapsed = 0
    /\ xcalls = <<>>
    /\ xlast = "none"
    /\ xzip = <<>>
    /\ xfail = "none"
    /\ xres = NoResult
    /\ xexc = "none"

NextExtract ==
    \/ CreateJob
    \/ GetUploadUrls
    \/ UploadToBlob
    \/ StartJob
    \/ PollNoBudget
    \/ PollTimeout
    \/ PollJob
    \/ GetDownloadUrl
    \/ FetchZip

SpecExtract == InitExtract /\ [][NextExtract]_vars

\* every request ends (httpx.AsyncClient(timeout=Config.HTTP_TIMEOUT)) and every
\* sleep returns, so a running extract_text always takes its next step
SpecExtractFair == SpecExtract /\ WF_vars(NextExtract)

(***************************************************************************)
(* Properties of extract_text.                                             *)
(***************************************************************************)
Returned == xpc = "returned"
IsErrorResult(r) == r.text = "" /\ DOMAIN r.stats = {"error"}
LastCall == IF xcalls = <<>> THEN "none" ELSE xcalls[Len(xcalls)]
CountCalls(c) == Cardinality({i \in 1 .. Len(xcalls) : xcalls[i] = c})

\* the failure outcomes C1 lists
ListedFailures ==
    {"http_status", "transport_timeout", "connection_error", "malformed_body",
     "missing_job_id", "missing_upload_url", "remote_failed", "poll_timeout",
     "bad_zip", "io_error"}

\* C1: extract_text never raises to its caller, and whenever it ends because
\* of one of the listed failures (HTTP error status, transport timeout or
\* connection error, malformed body, missing job id, missing upload location,
\* remote Failed, polling timeout, corrupt archive, unreadable file) it has
\* returned a result with text = "" and an error key in its stats.
C1_NeverRaises ==
    /\ xpc # "raised"
    /\ xexc = "none"
    /\ xfail \in ListedFailures =>
        /\ Returned
        /\ xres.text = ""
        /\ "error" \in DOMAIN xres.stats

\* the start acknowledgement is not JSON: ValueError, which only the
\* `except Exception` handler catches
C1_Witness ==
    /\ Returned
    /\ xfail = "malformed_body"
    /\ LastCall = "start"
    /\ IsErrorResult(xres)

NonTerminalPolls == StatusErrors \cup {"Created", "Running", "Unknown"}

\* C7: with a budget B configured and a status endpoint that never reports
\* Completed or Failed (every poll answers a non-terminal state or an HTTP
\* error status), polling ends: the loop is left only with elapsed >= B, as a
\* timeout, extract_text returns an error result for it, and a call that is
\* polling always comes to return.
C7_PollTerminates ==
    /\ [](Returned /\ xfail = "poll_timeout" =>
            /\ xcfg.set
            /\ xelapsed >= xcfg.secs
            /\ IsErrorResult(xres)
            /\ xres.stats.error = "Job timed out")
    /\ [](Returned /\ xcfg.set /\ LastCall = "status" /\ xlast \in NonTerminalPolls =>
            xfail = "poll_timeout")
    /\ ((xpc = "poll" /\ xcfg.set) ~> Returned)

\* timed out after two polls that were both answered with an HTTP error status
C7_Witness ==
    /\ Returned
    /\ xfail = "poll_timeout"
    /\ xlast \in StatusErrors
    /\ CountCalls("status") >= 2
    /\ xcfg.secs >= 2

Rank(c) ==
    CASE c = "create" -> 1
      [] c = "upload_urls" -> 2
      [] c = "upload" -> 3
      [] c = "start" -> 4
      [] c = "status" -> 5
      [] c = "download_url" -> 6
      [] c = "fetch_zip" -> 7

\* the outcome of a request after which the next step's request is issued
SuccessOf(c) ==
    CASE c = "create" -> "job"
      [] c = "upload_urls" -> "urls"
      [] c = "upload" -> "ok"
      [] c = "start" -> "ok"
      [] c = "status" -> "Completed"
      [] c = "download_url" -> "urls"
      [] c = "fetch_zip" -> "archive"

\* C8: the remote calls of one file are issued in the order create, upload
\* target, upload, start, status polls (one or more), download location,
\* archive fetch; a call is issued only while nothing has failed and only
\* after the preceding call succeeded (the download only after a poll saw
\* Completed, a further poll only after a non-terminal poll and with the
\* budget not exceeded), and no earlier step is re-entered.
C8_ForwardOnly ==
    [][xcalls' # xcalls =>
        /\ Len(xcalls') = Len(xcalls) + 1
        /\ SubSeq(xcalls', 1, Len(xcalls)) = xcalls
        /\ xpc \notin {"returned", "raised"}
        /\ xfail = "none"
        /\ LET c == xcalls'[Len(xcalls')]
           IN  /\ c = "status" => xcfg.set /\ ~(xelapsed > xcfg.secs)
               /\ IF xcalls = <<>> THEN c = "create"
                  ELSE \/ /\ c = "status"
                          /\ LastCall = "status"
                          /\ xlast \in NonTerminalPolls
                       \/ /\ Rank(c) = Rank(LastCall) + 1
                          /\ xlast = SuccessOf(LastCall)
    ]_vars

\* a whole lifecycle with a repeated poll
C8_Witness ==
    /\ LastCall = "fetch_zip"
    /\ CountCalls("status") >= 2
    /\ Len(xcalls) = CountCalls("status") + 6

\* C9: once a step has ended in a fatal outcome extract_text has returned
\* ExtractionResult(text = "", stats = {error: reason}) (and so issues no
\* further request).  An archive without entries is a fatal outcome of the
\* download/unpack step.
C9_FatalShortCircuit ==
    xfail # "none" => Returned /\ IsErrorResult(xres)

NetworkSteps == {"create", "upload_urls", "upload", "start", "download_url", "fetch_zip"}

\* C10: a network step whose request met HTTP 429, HTTP >= 500 or a transport
\* timeout is fatal only when the step has used up its MAX_RETRIES attempts.
C10_StepsRetried ==
    (xpc \in {"returned", "raised"} /\ LastCall \in NetworkSteps /\ xlast \in Retryable)
        => CountCalls(LastCall) >= MAX_RETRIES

\* the positions of the fetched archive's entries with extension e
EntriesWith(e) == {i \in 1 .. Len(xzip) : xzip[i].ext = e}
Least(S) == CHOOSE i \in S : \A j \in S : i <= j

\* C23: the text of a result read from the archive is the content of its
\* first markdown entry if it has one, else of its first JSON entry if it has
\* one, else of its first entry; the order of the entries does not matter
\* between the kinds.
C23_ArchivePreference ==
    (Returned /\ LastCall = "fetch_zip" /\ xlast = "archive" /\ xfail = "none") =>
        /\ Len(xzip) > 0
        /\ EntriesWith("md") # {} => xres.text = xzip[Least(EntriesWith("md"))].content
        /\ EntriesWith("md") = {} /\ EntriesWith("json") # {} =>
                xres.text = xzip[Least(EntriesWith("json"))].content
        /\ EntriesWith("md") = {} /\ EntriesWith("json") = {} => xres.text = xzip[1].content

\* a.json comes before b.md in the archive and the text is b.md's
C23_Witness ==
    /\ Returned
    /\ xzip = <<[ext |-> "json", content |-> "t1"], [ext |-> "md", content |-> "t2"]>>
    /\ xres.text = "t2"

\* C24: once a status poll has reported Failed, extract_text has returned the
\* error result whose diagnostic is "Job failed: " followed by the service's
\* error_message, and no further remote call (no poll, no download) is made.
C24_RemoteFailedIsFatal ==
    /\ [](xlast = "Failed" =>
            /\ Returned
            /\ LastCall = "status"
            /\ xres = ErrorResult("Job failed: error_message")
            /\ CountCalls("download_url") = 0
            /\ CountCalls("fetch_zip") = 0)
    /\ [][xlast = "Failed" => xcalls' = xcalls]_vars

\* the second poll reported Failed, after a poll that saw the job running
C24_Witness ==
    /\ xlast = "Failed"
    /\ Returned
    /\ CountCalls("status") = 2
    /\ xres.stats.error = "Job failed: error_message"

\* C26: a status request answered with HTTP 429, HTTP >= 500 or a transport
\* timeout does not end the job: polling goes on after the 2 s interval, and
\* the time already spent stays counted against the unchanged budget.
C26_TransientPollContinues ==
    [][(xpc = "poll" /\ Len(xcalls') = Len(xcalls) + 1 /\ xlast' \in Retryable) =>
        /\ xpc' = "poll"
        /\ xfail' = "none"
        /\ xelapsed' >= xelapsed + PollInterval
        /\ xcfg' = xcfg
    ]_vars

\* C11: run with the configuration of config.py (which defines no
\* SARVAM_POLLING_TIMEOUT), a call whose create, upload-target, upload and
\* start requests all succeeded goes on to poll the status and does not end
\* before a status was requested; and a call that ended after reading an
\* entry of the archive returned that entry's text with
\* stats = {job_id, status: Completed}.
C11_SuccessPath ==
    /\ (~xcfg.set /\ LastCall = "start" /\ xlast = SuccessOf("start")) => xpc = "poll"
    /\ (Returned /\ LastCall = "fetch_zip" /\ xlast = "archive" /\ xfail = "none") =>
            xres.stats = [job_id |-> xjob, status |-> "Completed"]

\* C12: every result with empty text that extract_text returns because of a
\* failure has an error key in its stats; a job that reached Completed and
\* whose download response names no location, or whose archive has no entry,
\* never gives stats that report status Completed without an error.
C12_EmptyTextHasError ==
    (Returned /\ xres.text = "" /\ xfail # "none") =>
        /\ "error" \in DOMAIN xres.stats
        /\ "status" \notin DOMAIN xres.stats

(***************************************************************************)
(* llm_client.py                                                           *)
(***************************************************************************)
\* utils.exponential_backoff(attempt): min(base * 2 ** attempt, cap)
Pow2[n \in Nat] == IF n = 0 THEN 1 ELSE 2 * Pow2[n - 1]
Min(a, b) == IF a <= b THEN a ELSE b
BackoffBase == 1
BackoffCap == 30

BackoffOneIndexed(attempt, base, cap) == Min(base * Pow2[attempt + 1], cap)

exponential_backoff(attempt, base, cap) == Min(base * Pow2[attempt], cap)

\* exponential_backoff(attempt): the call with the default base and cap
DefaultBackoff(attempt) == exponential_backoff(attempt, BackoffBase, BackoffCap)

\* models.RetentionDecision: the field constraints pydantic enforces (a
\* Str value stands for a text that is not a number)
AcceptsAnyNumber(k, v) ==
    CASE k = "retention_score" -> v.t = "num"
      [] k = "category" -> v.t = "str" /\ v.s \in Categories
      [] k = "suggested_action" -> v.t = "str" /\ v.s \in Actions
      [] k = "confidence" -> v.t = "num"
      [] k = "reasoning" -> v.t = "str"

FieldValid(k, v) ==
    CASE k = "retention_score" -> v.t = "num" /\ v.n >= 0 /\ v.n <= 100
      [] k = "category" -> v.t = "str" /\ v.s \in Categories
      [] k = "suggested_action" -> v.t = "str" /\ v.s \in Actions
      [] k = "confidence" -> v.t = "num" /\ v.n >= 0 /\ v.n <= 100
      [] k = "reasoning" -> v.t = "str"

\* _validate_decision
MissingFields(d) == {k \in Required : d[k].t = "absent"}
InvalidFields(d) == {k \in Required : ~FieldValid(k, d[k])}

ValidatesBeforeMissing(d) ==
    IF InvalidFields(d) \ MissingFields(d) # {}
    THEN Fallback(ReasonCiting("validation error", InvalidFields(d) \ MissingFields(d)))
    ELSE IF MissingFields(d) # {}
    THEN Fallback(ReasonCiting("Missing fields", MissingFields(d)))
    ELSE Decision(d.retention_score.n, d.category.s, d.suggested_action.s,
                  d.confidence.n, Reason(d.reasoning.s))

_validate_decision(d) ==
    IF MissingFields(d) # {}
    THEN Fallback(ReasonCiting("Missing fields", MissingFields(d)))
    ELSE IF InvalidFields(d) # {}
    THEN Fallback(ReasonCiting("validation error", InvalidFields(d)))
    ELSE Decision(d.retention_score.n, d.category.s, d.suggested_action.s,
                  d.confidence.n, Reason(d.reasoning.s))

\* one response: status or transport outcome o, Retry-After header h (of a
\* 429), body shape b (of a 200), and the object d the content parses to
ClassifyOutcomes == {"h200", "h429", "h5xx", "h4xx", "h3xx", "timeout", "connerr"}

\* bodies of a 200: not JSON; JSON but not an object; "choices": []; no
\* "choices" key; and the shapes of choices[0].message.content
BodyKinds ==
    {"nonjson", "not_dict", "no_choices", "no_choices_key", "content_empty",
     "content_null", "content_not_str", "content_not_json", "content_json_array",
     "content_object", "content_fenced_object", "content_fenced_one_line"}

ObjectBodies == {"content_object", "content_fenced_object"}

\* utils.safe_json_parse on the content of body b: TRUE when it returns a dict
SafeJsonParses(b) == b \in ObjectBodies

\* what one pass of the loop body does: return a decision, raise, or sleep
\* `wait` seconds and go round again
Return(dec) == [act |-> "return", decision |-> dec, exc |-> "none", wait |-> 0]
Raises(e) == [act |-> "raise", decision |-> NoDecision, exc |-> e, wait |-> 0]
Retry(w) == [act |-> "retry", decision |-> NoDecision, exc |-> "none", wait |-> w]

\* lines 119-134
On200(b, d) ==
    IF b = "nonjson" THEN Raises("ValueError")
    ELSE IF b = "not_dict" THEN Raises("AttributeError")
    ELSE IF b = "no_choices" THEN Raises("IndexError")
    ELSE IF b = "content_not_str" THEN Raises("AttributeError")
    ELSE IF ~SafeJsonParses(b) THEN Return(Fallback(Reason("Invalid JSON from LLM")))
    ELSE Return(_validate_decision(d))

\* lines 136-145: float(response.headers.get("Retry-After", exponential_backoff(attempt)))
On429(h, attempt) ==
    IF h.kind = "absent" THEN Retry(DefaultBackoff(attempt))
    ELSE IF h.kind = "number" THEN Retry(h.n)
    ELSE Raises("ValueError")

\* the try body and its two handlers, lines 112-175
AttemptResult(o, h, b, d, attempt) ==
    IF o = "h200" THEN On200(b, d)
    ELSE IF o = "h429" THEN On429(h, attempt)
    ELSE IF o = "h5xx" THEN Retry(DefaultBackoff(attempt))
    ELSE IF o \in {"h4xx", "h3xx"}
        THEN Return(Fallback(ReasonCiting("HTTP", {"status_code"})))
    ELSE IF o = "timeout" THEN Retry(DefaultBackoff(attempt))
    ELSE Return(Fallback(ReasonCiting("Network error", {"exception"})))

\* no extract_text call is running
ExtractIdle ==
    /\ xpc = "idle"
    /\ xcfg = [set |-> FALSE, secs |-> 0]
    /\ xjob = ""
    /\ xelapsed = 0
    /\ xcalls = <<>>
    /\ xlast = "none"
    /\ xzip = <<>>
    /\ xfail = "none"
    /\ xres = NoResult
    /\ xexc = "none"

\* one pass of `for attempt in range(Config.MAX_RETRIES)`
ClassifyAttempt ==
    /\ cpc = "request"
    /\ cattempt < MAX_RETRIES
    /\ \E o \in ClassifyOutcomes :
       \E h \in IF o = "h429" THEN RetryAfterHeaders ELSE {NoHeader} :
       \E b \in IF o = "h200" THEN BodyKinds ELSE {"none"} :
       \E d \in IF b \in ObjectBodies THEN ParsedDicts ELSE {EmptyDict} :
        LET r == AttemptResult(o, h, b, d, cattempt)
        IN  /\ clast' = o
            /\ chdr' = h
            /\ cbody' = b
            /\ cdict' = d
            /\ cpc' = CASE r.act = "return" -> "returned"
                        [] r.act = "raise" -> "raised"
                        [] OTHER -> "request"
            /\ cres' = r.decision
            /\ cexc' = r.exc
            /\ cattempt' = IF r.act = "retry" THEN cattempt + 1 ELSE cattempt
            /\ cwaits' = IF r.act = "retry" THEN Append(cwaits, r.wait) ELSE cwaits
    /\ UNCHANGED <<xvars, bvars, kvars, jvars, avars>>

\* the loop ran out: lines 177-181
ClassifyGiveUp ==
    /\ cpc = "request"
    /\ cattempt >= MAX_RETRIES
    /\ cpc' = "returned"
    /\ cres' = Fallback(Reason("Max retries exceeded"))
    /\ UNCHANGED <<cattempt, cwaits, clast, chdr, cbody, cdict, cexc, xvars, bvars, kvars, jvars, avars>>

InitClassify ==
    /\ ExtractIdle
    /\ BackoffIdle
    /\ BatchIdle
    /\ PollersIdle
    /\ ActionsIdle
    /\ cpc = "request"
    /\ cattempt = 0
    /\ cwaits = <<>>
    /\ clast = "none"
    /\ chdr = NoHeader
    /\ cbody = "none"
    /\ cdict = EmptyDict
    /\ cres = NoDecision
    /\ cexc = "none"

NextClassify ==
    \/ ClassifyAttempt
    \/ ClassifyGiveUp

SpecClassify == InitClassify /\ [][NextClassify]_vars

(***************************************************************************)
(* utils.exponential_backoff called on its own.                            *)
(***************************************************************************)
BackoffCall ==
    /\ kpc = "call"
    /\ kdelay' = exponential_backoff(kattempt, kbase, kcap)
    /\ kpc' = "returned"
    /\ UNCHANGED <<kattempt, kbase, kcap, xvars, cvars, bvars, jvars, avars>>

InitBackoff ==
    /\ ExtractIdle
    /\ ClassifyIdle
    /\ BatchIdle
    /\ PollersIdle
    /\ ActionsIdle
    /\ kpc = "call"
    /\ kattempt \in 0 .. MaxAttempt
    /\ kbase \in 1 .. MaxBase
    /\ kcap \in 1 .. MaxCap
    /\ kdelay = 0

NextBackoff == BackoffCall

SpecBackoff == InitBackoff /\ [][NextBackoff]_vars

\* the delays of attempts 0 .. 6 with the defaults
DefaultDelays == <<1, 2, 4, 8, 16, 30, 30>>

\* C14: with the default base and cap exponential_backoff(attempt) is
\* 1, 2, 4, 8, 16, 30, 30 for attempts 0 .. 6, never exceeds the cap of 30
\* and is not smaller than the delay of the attempt before.
C14_BackoffFormula ==
    (kpc = "returned" /\ kbase = BackoffBase /\ kcap = BackoffCap) =>
        /\ kattempt + 1 \in DOMAIN DefaultDelays => kdelay = DefaultDelays[kattempt + 1]
        /\ kdelay <= 30
        /\ kattempt > 0 => kdelay >= DefaultBackoff(kattempt - 1)

\* the cap takes over: attempt 5 gives 30, not 32
C14_Witness ==
    /\ kpc = "returned"
    /\ kbase = BackoffBase
    /\ kcap = BackoffCap
    /\ kattempt = 5
    /\ kdelay = 30

(***************************************************************************)
(* Properties of classify_document.                                        *)
(***************************************************************************)
\* C2: classify_document never raises and, once it has ended, has returned a
\* RetentionDecision, whatever the status, the Retry-After header and the
\* body of each response.
C2_AlwaysReturnsDecision ==
    /\ cpc # "raised"
    /\ cexc = "none"

\* C13: a response with HTTP 429 makes the loop go round again, and the wait
\* slept before the next attempt is the Retry-After value when the header is
\* a number, and the computed backoff of the current attempt when the header
\* is absent or cannot be parsed as a number.
C13_RetryAfterWait ==
    [][(cpc = "request" /\ cattempt < MAX_RETRIES /\ clast' = "h429") =>
        /\ cpc' = "request"
        /\ cattempt' = cattempt + 1
        /\ cwaits' = Append(cwaits, IF chdr'.kind = "number" THEN chdr'.n
                                    ELSE DefaultBackoff(cattempt))
    ]_vars

\* C15: classify_document issues at most MAX_RETRIES requests; every HTTP
\* 429, HTTP >= 500 and transport timeout uses up one attempt of the same
\* counter (and is followed by one sleep); when every attempt was used up by
\* such outcomes it returns the fallback decision whose reason is "Max
\* retries exceeded" together with the last observed error.
C15_RetryBudget ==
    /\ cattempt <= MAX_RETRIES
    /\ Len(cwaits) = cattempt
    /\ cpc \in {"returned", "raised"} /\ cattempt < MAX_RETRIES => clast \notin Retryable \/ cpc = "raised"
    /\ cpc = "returned" /\ cattempt = MAX_RETRIES =>
            /\ clast \in Retryable
            /\ cres = Fallback(ReasonCiting("Max retries exceeded", {"last_error"}))

\* C16: a response with an HTTP 4xx other than 429, or a transport error
\* that is not a timeout, ends classify_document at once: it returns the
\* fallback decision without another attempt and without a sleep, and the
\* reason captures the status code and a prefix of the body (4xx) or the
\* network error.
C16_NonRetryableFatal ==
    [][(cpc = "request" /\ cattempt < MAX_RETRIES /\ clast' \in {"h4xx", "connerr"}) =>
        /\ cpc' = "returned"
        /\ cattempt' = cattempt
        /\ cwaits' = cwaits
        /\ cres' = Fallback(cres'.reasoning)
        /\ clast' = "h4xx" =>
                {"status_code", "body_prefix"} \subseteq cres'.reasoning.fields
        /\ clast' = "connerr" => "exception" \in cres'.reasoning.fields
    ]_vars

\* the latest response was a 200 whose content parsed to a JSON object
ParsedObject == clast = "h200" /\ cbody \in ObjectBodies

\* C17: a response whose object lacks any of the five required fields gives
\* exactly the fallback decision (50, unknown, review, 0.0) whose reasoning
\* names the set of missing fields, whatever the values of the fields that
\* are present.
C17_MissingFieldFallback ==
    (cpc = "returned" /\ ParsedObject /\ \E k \in Required : cdict[k] = Absent) =>
        /\ cres.retention_score = 50
        /\ cres.category = "unknown"
        /\ cres.suggested_action = "review"
        /\ cres.confidence = 0
        /\ cres.reasoning = [msg |-> "Missing fields",
                             fields |-> {k \in Required : cdict[k] = Absent}]

\* only confidence is missing, and a present field (the score) is out of range
C17_Witness ==
    /\ cpc = "returned"
    /\ ParsedObject
    /\ {k \in Required : cdict[k] = Absent} = {"confidence"}
    /\ cdict.retention_score = Num(101)
    /\ cres = Fallback(ReasonCiting("Missing fields", {"confidence"}))

\* the value of field k is outside what RetentionDecision allows
OutOfRange(k, v) ==
    CASE k = "retention_score" -> ~(v.t = "num" /\ 0 <= v.n /\ v.n <= 100)
      [] k = "category" ->
            v \notin {Str(c) : c \in {"legal", "financial", "operational", "personal",
                                      "ephemeral", "unknown"}}
      [] k = "suggested_action" ->
            v \notin {Str(a) : a \in {"delete", "archive", "retain", "review"}}
      [] k = "confidence" -> ~(v.t = "num" /\ 0 <= v.n /\ v.n <= 100)
      [] k = "reasoning" -> v.t # "str"

\* C18: every decision classify_document returns has its score in [0, 100],
\* its category and action in the closed sets and its confidence in
\* [0.0, 1.0]; a response with all five fields present and some value out of
\* range gives the fallback decision (50, unknown, review, 0.0) whose
\* reasoning cites the fields that failed validation.
C18_DecisionInRange ==
    /\ cpc = "returned" =>
            /\ cres.retention_score \in 0 .. 100
            /\ cres.category \in
                    {"legal", "financial", "operational", "personal", "ephemeral", "unknown"}
            /\ cres.suggested_action \in {"delete", "archive", "retain", "review"}
            /\ cres.confidence \in 0 .. 100
    /\ (/\ cpc = "returned"
        /\ ParsedObject
        /\ \A k \in Required : cdict[k] # Absent
        /\ \E k \in Required : OutOfRange(k, cdict[k])) =>
            /\ cres = Fallback(cres.reasoning)
            /\ cres.reasoning.msg = "validation error"
            /\ cres.reasoning.fields = {k \in Required : OutOfRange(k, cdict[k])}

\* all five fields present, only the confidence (1.5) out of range
C18_Witness ==
    /\ cpc = "returned"
    /\ ParsedObject
    /\ cdict.confidence = Num(150)
    /\ {k \in Required : OutOfRange(k, cdict[k])} = {"confidence"}
    /\ cres = Fallback(ReasonCiting("validation error", {"confidence"}))

(***************************************************************************)
(* retention_engine.py and database.py: the batch driver.                  *)
(***************************************************************************)
\* Texts are tokens: "t1" and "t2" are short texts, LongText is a text of
\* more than TEXT_KEPT characters and FirstChars its first TEXT_KEPT characters.
LongText == "long"
FirstChars == "long[:500]"
TextLength(t) ==
    IF t = "" THEN 0
    ELSE IF t = LongText THEN TEXT_KEPT + 1
    ELSE IF t = FirstChars THEN TEXT_KEPT
    ELSE 2

\* the whole text
KeepsFullText(t) == t

\* models.py line 74: extraction.text[:500] if extraction.text else ""
Slice(t) == IF TextLength(t) > TEXT_KEPT THEN FirstChars ELSE t

\* a record without processed_at when there was no text
UnstampedWithoutText(h, text, dec) ==
    [file_hash |-> h, extracted_text |-> Slice(text), decision |-> dec,
     processed_at |-> text # ""]

\* models.FileRecord.from_scan_and_decision, with processed_at = now_utc()
FileRecord(h, text, dec) ==
    [file_hash |-> h, extracted_text |-> Slice(text), decision |-> dec, processed_at |-> TRUE]

\* get_processed_hashes: SELECT file_hash FROM files WHERE processed_at IS NOT NULL
get_processed_hashes(conn) == {conn[p].file_hash : p \in {q \in Paths : conn[q].processed_at}}

\* get_unprocessed_files: the scanned files whose hash is not a processed one
KeepsWhenPathUnknown(conn, scan, p) == scan[p] # 0 /\ ~conn[p].processed_at

Unprocessed(conn, scan, p) == scan[p] # 0 /\ scan[p] \notin get_processed_hashes(conn)

\* a filter that also keeps only the first file of each fingerprint
OnePerFingerprint(conn, scan) ==
    {p \in Paths : Unprocessed(conn, scan, p) /\ \A q \in 1 .. p - 1 : scan[q] # scan[p]}

get_unprocessed_files(conn, scan) == {p \in Paths : Unprocessed(conn, scan, p)}

\* insert_or_update_file, the statement: INSERT ... ON CONFLICT(file_path) DO UPDATE
Upsert(conn, p, rec) == [conn EXCEPT ![p] = rec]

\* what extract_text hands back to process_file (it never raises)
BatchExtractions ==
    {ErrorResult("Create job failed"), CompletedResult("job1", ""), CompletedResult("job1", "t1"),
     CompletedResult("job1", LongText)}

\* what classify_document hands back to process_file
BatchClassifications ==
    {Return(Decision(90, "legal", "retain", 80, Reason("because"))),
     Return(Fallback(Reason("Invalid JSON from LLM"))),
     Raises("ValueError")}

\* process_file, line 51: `if not extraction.text`
NeverSkips(text) == FALSE

SkipsClassification(text) == text = ""

\* the decision process_file assigns without asking the classifier
NoTextDecision == Fallback(Reason("No text extracted from document"))

\* asyncio.Semaphore.acquire goes through only while a slot is free
AlwaysAcquires(free) == TRUE

CanAcquire(free) == free > 0

\* process_all, line 127: `except Exception` around `await coro`
CatchesNothing(e) == FALSE

TaskBoundaryCatches(e) == e \in ExceptionClasses

Finished == {"done", "failed", "cancelled"}
InFlight == {p \in Paths : tpc[p] \in {"extracting", "classifying", "inserting", "committing"}}
Launched == {p \in Paths : tpc[p] # "none"}

\* the scans the scanner can hand over: at most one file per path
Scans == [Paths -> 0 .. MaxHashes]

\* a call of process_all up to its first suspension: the semaphore, the
\* resumability filter, one task per remaining file
ProcessAll ==
    /\ bphase \in {"idle", "returned"}
    /\ runs < host.calls
    /\ \E scan \in Scans, k \in host.caps :
        /\ files' = scan
        /\ limit' = k
        /\ sem' = k
        /\ sameScan' = (runs > 0 /\ scan = files)
        /\ tpc' = [p \in Paths |->
                    IF p \in get_unprocessed_files(store, scan) THEN "waiting" ELSE "none"]
        /\ bphase' = IF get_unprocessed_files(store, scan) = {} THEN "returned" ELSE "running"
    /\ runs' = runs + 1
    /\ prevClean' = (prevClean /\ \A p \in Paths : tpc[p] # "failed")
    /\ ttext' = [p \in Paths |-> ""]
    /\ tdec' = [p \in Paths |-> NoDecision]
    /\ tev' = [p \in Paths |-> <<>>]
    /\ results' = <<>>
    /\ UNCHANGED <<host, store, committed, xvars, cvars, kvars, jvars, avars>>

\* the task of path p leaves `async with semaphore` with exception e, which
\* reaches `await coro` in process_all
TaskFails(p, e) ==
    /\ ttext' = [ttext EXCEPT ![p] = ""]
    /\ tdec' = [tdec EXCEPT ![p] = NoDecision]
    /\ IF TaskBoundaryCatches(e)
       THEN /\ tpc' = [tpc EXCEPT ![p] = "failed"]
            /\ bphase' = bphase
       ELSE /\ tpc' = [q \in Paths |->
                        IF q = p THEN "failed"
                        ELSE IF tpc[q] \in Finished \cup {"none"} THEN tpc[q]
                        ELSE "cancelled"]
            /\ bphase' = "raised"

\* ... from inside a block whose exit forgets the slot
TaskRaisesKeepsSlot(p, e) ==
    /\ sem' = sem
    /\ TaskFails(p, e)

\* ... from inside the block, whose exit releases the slot
TaskRaises(p, e) ==
    /\ sem' = sem + 1
    /\ TaskFails(p, e)

\* _notify(status), lines 38-43: the callback, if one was passed, is called
\* with (file_path, status) inside try / `except Exception: pass`
NotifyCatchesNothing(e) == FALSE

NotifyCatches(e) == e \in ExceptionClasses

\* a _notify that reports "done" whatever the stage
EmitsDoneAlways(p, status) ==
    IF host.callback = "none" THEN tev ELSE [tev EXCEPT ![p] = Append(@, "done")]

\* the statuses handed to the callback of path p, after _notify(status)
Emit(p, status) ==
    IF host.callback = "none" THEN tev ELSE [tev EXCEPT ![p] = Append(@, status)]

\* the callback's exception (a ValueError, say) gets out of _notify
CallbackEscapes == host.callback = "raises" /\ ~NotifyCatches("ValueError")

\* insert_or_update_file called on the event loop itself: while a write is
\* under way no coroutine runs
WriteOnLoop(pc) == pc \in {"inserting", "committing"}

\* lines 68-71: the write is handed to the default executor's thread and
\* awaited, so at no position does a task keep the event loop to itself
BlocksLoop(pc) == FALSE

\* the event loop can resume a coroutine
LoopRuns == \A q \in Paths : ~BlocksLoop(tpc[q])

\* `async with semaphore`: take a slot; then _notify("extracting")
Acquire(p) ==
    /\ bphase = "running"
    /\ LoopRuns
    /\ tpc[p] = "waiting"
    /\ CanAcquire(sem)
    /\ tev' = Emit(p, "extracting")
    /\ IF CallbackEscapes
       THEN /\ sem' = sem
            /\ TaskFails(p, "ValueError")
       ELSE /\ sem' = sem - 1
            /\ tpc' = [tpc EXCEPT ![p] = "extracting"]
            /\ UNCHANGED <<bphase, ttext, tdec>>
    /\ UNCHANGED <<host, runs, limit, files, sameScan, prevClean, results,
                   store, committed, xvars, cvars, kvars, jvars, avars>>

\* `await sarvam_client.extract_text`; empty text short-circuits to the
\* fallback, any other text is announced with _notify("classifying")
Extract(p) ==
    /\ bphase = "running"
    /\ LoopRuns
    /\ tpc[p] = "extracting"
    /\ \E r \in BatchExtractions :
        IF SkipsClassification(r.text)
        THEN /\ ttext' = [ttext EXCEPT ![p] = r.text]
             /\ tdec' = [tdec EXCEPT ![p] = NoTextDecision]
             /\ tpc' = [tpc EXCEPT ![p] = "inserting"]
             /\ UNCHANGED <<bphase, sem, tev>>
        ELSE /\ tev' = Emit(p, "classifying")
             /\ IF CallbackEscapes
                THEN TaskRaises(p, "ValueError")
                ELSE /\ ttext' = [ttext EXCEPT ![p] = r.text]
                     /\ tdec' = tdec
                     /\ tpc' = [tpc EXCEPT ![p] = "classifying"]
                     /\ UNCHANGED <<bphase, sem>>
    /\ UNCHANGED <<host, runs, limit, files, sameScan, prevClean, results,
                   store, committed, xvars, cvars, kvars, jvars, avars>>

\* `await llm_client.classify_document`
Classify(p) ==
    /\ bphase = "running"
    /\ LoopRuns
    /\ tpc[p] = "classifying"
    /\ \E r \in BatchClassifications :
        IF r.act = "raise"
        THEN TaskRaises(p, r.exc)
        ELSE /\ tdec' = [tdec EXCEPT ![p] = r.decision]
             /\ tpc' = [tpc EXCEPT ![p] = "inserting"]
             /\ UNCHANGED <<bphase, sem, ttext>>
    /\ UNCHANGED <<host, runs, limit, files, sameScan, prevClean, tev, results,
                   store, committed, xvars, cvars, kvars, jvars, avars>>

\* the write handed to the executor while the classification is still awaited
InsertsBeforeDecision(p) ==
    /\ bphase = "running"
    /\ tpc[p] \in {"classifying", "inserting"}
    /\ store' = Upsert(store, p, FileRecord(files[p], ttext[p], tdec[p]))
    /\ tpc' = [tpc EXCEPT ![p] = "committing"]
    /\ UNCHANGED <<bphase, sem, ttext, tdec>>
    /\ UNCHANGED <<host, runs, limit, files, sameScan, prevClean, tev, results,
                   committed, xvars, cvars, kvars, jvars, avars>>

\* insert_or_update_file in the executor thread, conn.execute: the upsert
\* lands in the connection's open transaction, or the statement fails
Insert(p) ==
    /\ bphase = "running"
    /\ tpc[p] = "inserting"
    /\ \/ /\ store' = Upsert(store, p, FileRecord(files[p], ttext[p], tdec[p]))
          /\ tpc' = [tpc EXCEPT ![p] = "committing"]
          /\ UNCHANGED <<bphase, sem, ttext, tdec>>
       \/ /\ TaskRaises(p, "OperationalError")
          /\ store' = store
    /\ UNCHANGED <<host, runs, limit, files, sameScan, prevClean, tev, results,
                   committed, xvars, cvars, kvars, jvars, avars>>

\* conn.commit() commits whatever the shared connection holds; then
\* _notify("done") and the task returns its record, which process_all
\* appends to results
Commit(p) ==
    /\ bphase = "running"
    /\ tpc[p] = "committing"
    /\ \/ /\ committed' = store
          /\ tev' = Emit(p, "done")
          /\ IF CallbackEscapes
             THEN /\ TaskRaises(p, "ValueError")
                  /\ results' = results
             ELSE /\ tpc' = [tpc EXCEPT ![p] = "done"]
                  /\ results' = Append(results,
                        [file_path |-> p, rec |-> FileRecord(files[p], ttext[p], tdec[p])])
                  /\ sem' = sem + 1
                  /\ ttext' = [ttext EXCEPT ![p] = ""]
                  /\ tdec' = [tdec EXCEPT ![p] = NoDecision]
                  /\ bphase' = bphase
       \/ /\ TaskRaises(p, "OperationalError")
          /\ UNCHANGED <<committed, results, tev>>
    /\ UNCHANGED <<host, runs, limit, files, sameScan, prevClean, store, xvars, cvars, kvars, jvars, avars>>

\* as_completed has yielded every task: `return results`
ReturnsEarly ==
    /\ bphase = "running"
    /\ \E p \in Paths : tpc[p] \in Finished
    /\ bphase' = "returned"
    /\ UNCHANGED <<host, runs, limit, files, sameScan, prevClean, sem, tpc, ttext, tdec, tev,
                   results, store, committed, xvars, cvars, kvars, jvars, avars>>

ReturnResults ==
    /\ bphase = "running"
    /\ \A p \in Paths : tpc[p] \in Finished \cup {"none"}
    /\ bphase' = "returned"
    /\ UNCHANGED <<host, runs, limit, files, sameScan, prevClean, sem, tpc, ttext, tdec, tev,
                   results, store, committed, xvars, cvars, kvars, jvars, avars>>

\* one call of process_all on a fresh table, with any cap
Init ==
    /\ ExtractIdle
    /\ ClassifyIdle
    /\ BackoffIdle
    /\ PollersIdle
    /\ ActionsIdle
    /\ host = [calls |-> 1, caps |-> 1 .. MaxLimit, callback |-> "returns"]
    /\ BatchStart

\* one call of process_all without a callback, or with one that raises
InitNotify ==
    /\ ExtractIdle
    /\ ClassifyIdle
    /\ BackoffIdle
    /\ PollersIdle
    /\ ActionsIdle
    /\ host \in [calls : {1}, caps : {1 .. MaxLimit}, callback : {"none", "raises"}]
    /\ BatchStart

\* successive calls of process_all on the same table (the app keeps one
\* connection and calls process_all without a cap: Config.MAX_CONCURRENCY)
InitRuns ==
    /\ ExtractIdle
    /\ ClassifyIdle
    /\ BackoffIdle
    /\ PollersIdle
    /\ ActionsIdle
    /\ host = [calls |-> MaxRuns, caps |-> {MAX_CONCURRENCY}, callback |-> "returns"]
    /\ BatchStart

Next ==
    \/ ProcessAll
    \/ \E p \in Paths : Acquire(p)
    \/ \E p \in Paths : Extract(p)
    \/ \E p \in Paths : Classify(p)
    \/ \E p \in Paths : Insert(p)
    \/ \E p \in Paths : Commit(p)
    \/ ReturnResults

Spec == Init /\ [][Next]_vars

SpecRuns == InitRuns /\ [][Next]_vars

SpecNotify == InitNotify /\ [][Next]_vars

\* every await of a pipeline ends (the requests have a timeout, the executor
\* runs the write) and the event loop resumes whatever is ready
SpecFair == Spec /\ WF_vars(Next)

(***************************************************************************)
(* Properties of the batch driver.                                         *)
(***************************************************************************)
ResultPaths == {results[i].file_path : i \in 1 .. Len(results)}

\* C3: at most `limit` (K) file pipelines are in flight (between acquiring
\* and releasing the semaphore: extracting, classifying or persisting) in
\* every state of process_all, and a task waits only while all K slots are
\* taken.
C3_ConcurrencyBound ==
    bphase \in {"running", "returned"} =>
        /\ Cardinality(InFlight) <= limit
        /\ sem = limit - Cardinality(InFlight)
        /\ (\E p \in Paths : tpc[p] = "waiting") /\ sem = 0 => Cardinality(InFlight) = limit

\* more files than slots: every slot taken, one pipeline persisting, a task waiting
C3_Witness ==
    /\ bphase = "running"
    /\ Cardinality(InFlight) = limit
    /\ \E p \in Paths : tpc[p] = "waiting"
    /\ \E p \in Paths : tpc[p] = "committing"

\* C4: an exception raised inside one file's pipeline is caught at the task
\* boundary: process_all never raises and cancels no task, the step in
\* which a pipeline fails changes no sibling's position, a failed file is
\* not in the returned list, and process_all returns only when every
\* launched file has finished, each sibling that did not fail being returned.
C4_FailureIsolation ==
    /\ [](bphase # "raised")
    /\ [](\A p \in Paths : tpc[p] # "cancelled")
    /\ [](\A p \in Paths : tpc[p] = "failed" => p \notin ResultPaths)
    /\ [](bphase = "returned" =>
            \A p \in Launched :
                /\ tpc[p] \in {"done", "failed"}
                /\ tpc[p] = "done" <=> p \in ResultPaths)
    /\ [][\A p \in Paths : (tpc[p] # "failed" /\ tpc'[p] = "failed") =>
            /\ bphase' = bphase
            /\ \A q \in Paths \ {p} : tpc'[q] = tpc[q]]_vars

\* the run returned with one file isolated as a failure and its sibling's record
C4_Witness ==
    /\ bphase = "returned"
    /\ \E p \in Paths, q \in Paths :
        /\ tpc[p] = "failed"
        /\ tpc[q] = "done"
        /\ ResultPaths = {q}

\* C5: a run of process_all that gets the same scan as the run before it
\* launches no pipeline and returns the empty list.  Stated for the case
\* that is most favourable to the claim: no pipeline of any earlier run failed.
C5_Idempotent ==
    (sameScan /\ prevClean) => (Launched = {} /\ results = <<>>)

C19_EmptyTextShortCircuit ==
    /\ [](\A p \in Paths : tpc[p] = "classifying" => ttext[p] # "")
    /\ [][\A p \in Paths :
            (tpc[p] = "extracting" /\ tpc'[p] # "extracting" /\ ttext'[p] = "") =>
                /\ tpc'[p] = "inserting"
                /\ tdec'[p] = Decision(50, "unknown", "review", 0,
                                       Reason("No text extracted from document"))
                /\ \A q \in Paths \ {p} : tpc'[q] = tpc[q] /\ tdec'[q] = tdec[q]]_vars
    /\ [](\A i \in 1 .. Len(results) :
            results[i].rec.extracted_text = "" =>
                results[i].rec.decision = Decision(50, "unknown", "review", 0,
                                                   Reason("No text extracted from document")))

\* one file got no text and the fixed decision, its sibling the classifier's
C19_Witness ==
    /\ bphase = "returned"
    /\ \E i \in 1 .. Len(results), j \in 1 .. Len(results) :
        /\ results[i].rec.extracted_text = ""
        /\ results[i].rec.decision.reasoning.msg = "No text extracted from document"
        /\ results[j].rec.extracted_text # ""
        /\ results[j].rec.decision.category = "legal"

\* how often path p occurs in the returned list
Occurrences(p) == Cardinality({i \in 1 .. Len(results) : results[i].file_path = p})

\* C20: with every pipeline step ending, a running process_all comes to
\* return; it has returned only when every launched task has finished, and
\* then each launched file is either once in the returned list or was
\* isolated as a failure and is not in it, and nothing else is in the list.
C20_BatchCompletes ==
    /\ [](bphase = "returned" =>
            /\ \A p \in Launched :
                /\ tpc[p] \in {"done", "failed"}
                /\ tpc[p] = "done" => Occurrences(p) = 1
                /\ tpc[p] = "failed" => Occurrences(p) = 0
            /\ \A p \in Paths \ Launched : Occurrences(p) = 0)
    /\ (bphase = "running" ~> bphase = "returned")

\* both files returned, in completion order: the second path first
C20_Witness ==
    /\ bphase = "returned"
    /\ Len(results) = 2
    /\ results[1].file_path = 2
    /\ results[2].file_path = 1

\* C21: a file whose pipeline failed in a run (it is absent from the returned
\* list) left no processed row behind, so the next run, given the file with
\* the same fingerprint, launches a pipeline for it again.  Stated for a
\* fingerprint that no row of another path holds.
C21_FailedReprocessed ==
    [][runs' # runs =>
        \A p \in Paths :
            (/\ tpc[p] = "failed"
             /\ files'[p] = files[p]
             /\ \A q \in Paths \ {p} :
                    ~(store[q].processed_at /\ store[q].file_hash = files[p]))
                => tpc'[p] = "waiting"
    ]_vars

\* C27: a fingerprint that has a committed row stays in what
\* get_processed_hashes returns, whatever is written afterwards (a write
\* replaces only a row of the same fingerprint).
C27_KeyedByFingerprint ==
    [][get_processed_hashes(committed) \subseteq get_processed_hashes(store')]_vars

\* C22: an exception the progress callback raises, at whatever stage, stays
\* inside _notify: process_all does not raise, a task fails only while its
\* classification or its persistence write is running (never at a
\* notification: not on acquiring the slot, not on leaving extraction, and
\* when it fails on the write nothing was committed by that step), and every
\* file that finished is in the returned list with the record the pipeline
\* built, as with a callback that returns.
C22_CallbackSwallowed ==
    /\ [](bphase # "raised")
    /\ [](bphase = "returned" =>
            \A p \in Launched : tpc[p] = "done" =>
                \E i \in 1 .. Len(results) :
                    /\ results[i].file_path = p
                    /\ results[i].rec = store[p])
    /\ [][\A p \in Paths : (tpc[p] # "failed" /\ tpc'[p] = "failed") =>
            /\ tpc[p] \in {"classifying", "inserting", "committing"}
            /\ committed' = committed
            /\ tev'[p] = tev[p]]_vars

\* the callback raised at all three stages of a file and its record is returned
C22_Witness ==
    /\ host.callback = "raises"
    /\ bphase = "returned"
    /\ \E i \in 1 .. Len(results) :
        /\ tev[results[i].file_path] = <<"extracting", "classifying", "done">>
        /\ results[i].rec.decision.category = "legal"
        /\ store[results[i].file_path] = results[i].rec

(***************************************************************************)
(* sarvam_client._poll_job as process_all runs it: one coroutine per file  *)
(* in flight, each with its own local start_time, all reading one clock.   *)
(* Time passes between any two steps (a request's latency, a sleep, other  *)
(* coroutines running).                                                    *)
(***************************************************************************)
\* line 147 with the variable shared by the jobs: every start moves it
SharedStartTime(j) ==
    /\ jpc[j] = "idle"
    /\ jpc' = [jpc EXCEPT ![j] = "check"]
    /\ jstart' = [k \in Jobs |-> now]
    /\ UNCHANGED <<now, jcfg, jwake>>

\* line 147: start_time = time.time()
PollerStart(j) ==
    /\ jpc[j] = "idle"
    /\ jpc' = [jpc EXCEPT ![j] = "check"]
    /\ jstart' = [jstart EXCEPT ![j] = now]
    /\ UNCHANGED <<now, jcfg, jwake>>

\* lines 150-152: elapsed = time.time() - start_time, compared with the budget
PollerCheck(j) ==
    /\ jpc[j] = "check"
    /\ jpc' = [jpc EXCEPT ![j] =
                IF ~jcfg.set THEN "attribute_error"
                ELSE IF TimedOut(now - jstart[j], jcfg.secs) THEN "timed_out"
                ELSE "request"]
    /\ UNCHANGED <<now, jcfg, jstart, jwake>>

\* lines 154-174: the status request and what the loop does with its outcome
PollerResponse(j) ==
    /\ jpc[j] = "request"
    /\ \E o \in PollOutcomes :
        IF PollRaises(o).exc # "none"
        THEN /\ jpc' = [jpc EXCEPT ![j] = "failed"]
             /\ UNCHANGED jwake
        ELSE IF AfterPoll(o) = "download_url"
        THEN /\ jpc' = [jpc EXCEPT ![j] = "completed"]
             /\ UNCHANGED jwake
        ELSE /\ jpc' = [jpc EXCEPT ![j] = "sleep"]
             /\ jwake' = [jwake EXCEPT ![j] = now + PollInterval]
    /\ UNCHANGED <<now, jcfg, jstart>>

\* asyncio.sleep(2.0) is over
PollerWake(j) ==
    /\ jpc[j] = "sleep"
    /\ now >= jwake[j]
    /\ jpc' = [jpc EXCEPT ![j] = "check"]
    /\ jwake' = [jwake EXCEPT ![j] = 0]
    /\ UNCHANGED <<now, jcfg, jstart>>

Tick ==
    /\ now < MaxClock
    /\ now' = now + 1
    /\ UNCHANGED <<jcfg, jpc, jstart, jwake>>

InitPoll ==
    /\ ExtractIdle
    /\ ClassifyIdle
    /\ BackoffIdle
    /\ BatchIdle
    /\ ActionsIdle
    /\ now = 0
    /\ jcfg \in PollingTimeoutConfigs
    /\ jpc = [j \in Jobs |-> "idle"]
    /\ jstart = [j \in Jobs |-> 0]
    /\ jwake = [j \in Jobs |-> 0]

NextPoll ==
    /\ \/ \E j \in Jobs : PollerStart(j)
       \/ \E j \in Jobs : PollerCheck(j)
       \/ \E j \in Jobs : PollerResponse(j)
       \/ \E j \in Jobs : PollerWake(j)
       \/ Tick
    /\ UNCHANGED <<xvars, cvars, bvars, kvars, avars>>

SpecPoll == InitPoll /\ [][NextPoll]_vars

\* job j has left _poll_job
PollerDone(j) == jpc[j] \in {"attribute_error", "timed_out", "failed", "completed"}

\* C25: a job's polling times out exactly when, at one of its own checks, the
\* time since the start of its own polling exceeds the budget; its start time
\* is the clock's value when its own polling began and never changes; and a
\* step of one job (its timeout included) changes the position, the start
\* time and the wake-up time of no other job.
C25_OwnBudget ==
    [][\A j \in Jobs :
        /\ (jpc[j] # "timed_out" /\ jpc'[j] = "timed_out") =>
                jpc[j] = "check" /\ now - jstart[j] > jcfg.secs
        /\ (jpc[j] = "check" /\ jpc'[j] # "check" /\ jcfg.set
                /\ now - jstart[j] > jcfg.secs) => jpc'[j] = "timed_out"
        /\ (jpc[j] = "idle" /\ jpc'[j] # "idle") => jstart'[j] = now
        /\ jpc[j] # "idle" => jstart'[j] = jstart[j]
        /\ jpc'[j] # jpc[j] =>
                \A k \in Jobs \ {j} :
                    jpc'[k] = jpc[k] /\ jstart'[k] = jstart[k] /\ jwake'[k] = jwake[k]
    ]_vars

\* job 1 hung and timed out; job 2, started later, completed after that
\* although by then more than the budget had passed since job 1's start
C25_Witness ==
    /\ jpc[1] = "timed_out"
    /\ jpc[2] = "completed"
    /\ jstart[2] > jstart[1]
    /\ now - jstart[1] > jcfg.secs
    /\ now - jstart[2] <= jcfg.secs

(***************************************************************************)
(* action_engine.py: ActionEngine.                                         *)
(***************************************************************************)
SuggestedActions == {"delete", "archive", "retain", "review"}
\* FileRecord.suggested_action is a str: any other text can be stored
ActionValues == SuggestedActions \cup {"purge"}
Records == [file_path : Names, suggested_action : ActionValues]
\* the lists apply_all is handed: rows of the files table, whose file_path is UNIQUE
RecordLists ==
    {rs \in SeqsUpTo(Records, MaxRecords) :
        \A i, j \in 1 .. Len(rs) : i # j => rs[i].file_path # rs[j].file_path}
Filters == {NoFilter} \cup {[given |-> TRUE, actions |-> A] : A \in SUBSET SuggestedActions}

\* the filesystems a call can find: which source files exist, and whether the
\* destination folders exist (t >= 0) with the names <name>, <name>_1, ...,
\* <name>_<t-1> already taken in them
FsWith(S, t) ==
    [dirs |-> IF t >= 0 THEN Folders ELSE {},
     at |-> [l \in Locs |->
                IF l.dir = "." THEN (IF l.name \in S /\ l.n = 0 THEN l.name ELSE "none")
                ELSE IF l.n < t THEN "old" ELSE "none"]]
Filesystems == {FsWith(S, t) : S \in SUBSET Names, t \in (0 - 1) .. MaxSuffix + 1}

ActionResult(path, action, status, dest, err) ==
    [file_path |-> path, action |-> action, status |-> status, destination |-> dest,
     error |-> err]

\* how the filesystem calls of one _move_file end: all succeed, mkdir raises
\* OSError, shutil.move raises before anything is at the destination, or
\* shutil.move raises after copying, on removing the source
MoveOutcomes == {"ok", "mkdir_fails", "move_fails", "unlink_fails"}

\* the plain name, taken or not
NoSuffix(fs, folder, nm) == 0

\* lines 96-102: the first of <name>, <name>_1, <name>_2, ... that does not exist
FreeSuffix(fs, folder, nm) ==
    CHOOSE k \in 0 .. MaxSuffix + MaxRecords :
        /\ fs.at[Dest(folder, nm, k)] = "none"
        /\ \A i \in 0 .. k - 1 : fs.at[Dest(folder, nm, i)] # "none"

\* os.remove instead of a move
Removed(fs, nm, dest) == [fs EXCEPT !.at[Source(nm)] = "none"]

\* line 104: shutil.move(src_path, dest_path)
Moved(fs, nm, dest) ==
    [fs EXCEPT !.at[dest] = fs.at[Source(nm)], !.at[Source(nm)] = "none"]

\* a dry run that creates the destination folder
DryRunMakesFolder(fs, nm, folder) ==
    [fs |-> [fs EXCEPT !.dirs = @ \cup {folder}],
     result |-> ActionResult(nm, folder, "dry_run", Dest(folder, nm, 0), "")]

\* lines 77-83: the dry_run branch
DryRun(fs, nm, folder) ==
    [fs |-> fs, result |-> ActionResult(nm, folder, "dry_run", Dest(folder, nm, 0), "")]

\* lines 66-118
_move_file(fs, dry, nm, folder, o) ==
    IF dry THEN DryRun(fs, nm, folder)
    ELSE IF fs.at[Source(nm)] = "none"
        THEN [fs |-> fs,
              result |-> ActionResult(nm, folder, "error", NoDest, "Source file not found")]
    ELSE IF o = "mkdir_fails"
        THEN [fs |-> fs, result |-> ActionResult(nm, folder, "error", NoDest, "OSError")]
    ELSE LET made == [fs EXCEPT !.dirs = @ \cup {folder}]
             dest == Dest(folder, nm, FreeSuffix(fs, folder, nm))
         IN  IF o = "move_fails"
                THEN [fs |-> made,
                      result |-> ActionResult(nm, folder, "error", NoDest, "OSError")]
             ELSE IF o = "unlink_fails"
                THEN [fs |-> [made EXCEPT !.at[dest] = fs.at[Source(nm)]],
                      result |-> ActionResult(nm, folder, "error", NoDest, "OSError")]
             ELSE [fs |-> Moved(made, nm, dest),
                   result |-> ActionResult(nm, folder, "success", dest, "")]

\* lines 122-166
apply_action(fs, dry, rec, o) ==
    IF rec.suggested_action = "delete" THEN _move_file(fs, dry, rec.file_path, ".trash", o)
    ELSE IF rec.suggested_action = "archive"
        THEN _move_file(fs, dry, rec.file_path, ".archive", o)
    ELSE IF rec.suggested_action = "retain"
        THEN [fs |-> fs, result |-> ActionResult(rec.file_path, "retain", "skipped", NoDest, "")]
    ELSE IF rec.suggested_action = "review"
        THEN [fs |-> fs,
              result |-> ActionResult(rec.file_path, "review",
                                      IF dry THEN "dry_run" ELSE "skipped", NoDest, "")]
    ELSE [fs |-> fs,
          result |-> ActionResult(rec.file_path, rec.suggested_action, "skipped", NoDest,
                                  "Unrecognized action")]

\* lines 182-185: `if action_filter:` is false for None and for an empty list
InFilter(filter, rec) == rec.suggested_action \in filter.actions
ToApply(records, filter) ==
    IF filter.given /\ filter.actions # {}
    THEN SelectSeq(records, LAMBDA r : InFilter(filter, r))
    ELSE records

\* one pass of `for record in to_apply`
ApplyAction ==
    /\ apc = "applying"
    /\ Len(aresults) < Len(ToApply(arecs, afilter))
    /\ \E o \in MoveOutcomes :
        LET rec == ToApply(arecs, afilter)[Len(aresults) + 1]
            r == apply_action(afs, adry, rec, o)
        IN  /\ o = "mkdir_fails" => rec.suggested_action \in {"delete", "archive"}
            /\ afs' = r.fs
            /\ aresults' = Append(aresults, r.result)
            /\ asummary' = [asummary EXCEPT ![r.result.status] = @ + 1]
    /\ UNCHANGED <<apc, adry, afilter, arecs>>

\* line 200: return {"summary": summary, "results": results}
ReturnOutcome ==
    /\ apc = "applying"
    /\ Len(aresults) = Len(ToApply(arecs, afilter))
    /\ apc' = "returned"
    /\ UNCHANGED <<adry, afilter, arecs, afs, aresults, asummary>>

\* one call of apply_all on an engine built with either mode
InitActions ==
    /\ ExtractIdle
    /\ ClassifyIdle
    /\ BackoffIdle
    /\ BatchIdle
    /\ PollersIdle
    /\ apc = "applying"
    /\ adry \in BOOLEAN
    /\ afilter \in Filters
    /\ arecs \in RecordLists
    /\ afs \in Filesystems
    /\ aresults = <<>>
    /\ asummary = NoSummary

NextActions ==
    /\ \/ ApplyAction
       \/ ReturnOutcome
    /\ UNCHANGED <<xvars, cvars, bvars, kvars, jvars>>

SpecActions == InitActions /\ [][NextActions]_vars

\* C28: whatever the action of the record and however its filesystem calls
\* end, a file that was at its source path is afterwards still there or at a
\* name that was free in the sibling .trash or .archive folder; nothing that
\* was in those folders is replaced; and a record whose action is neither
\* delete nor archive leaves the filesystem as it was.
C28_NeverDeletes ==
    [][/\ \A nm \in Names : afs.at[Source(nm)] # "none" =>
            \/ afs'.at[Source(nm)] = afs.at[Source(nm)]
            \/ \E f \in Folders, k \in 0 .. MaxSuffix + MaxRecords :
                /\ afs.at[Dest(f, nm, k)] = "none"
                /\ afs'.at[Dest(f, nm, k)] = afs.at[Source(nm)]
       /\ \A l \in Locs : (l.dir \in Folders /\ afs.at[l] # "none") => afs'.at[l] = afs.at[l]
       /\ (Len(aresults') > Len(aresults)
            /\ ToApply(arecs, afilter)[Len(aresults')].suggested_action
                    \notin {"delete", "archive"}) => afs' = afs
    ]_vars

\* file a went to .trash under a suffixed name beside the file that was there,
\* and another record of the call ended in an error
C28_Witness ==
    /\ apc = "returned"
    /\ ~adry
    /\ \E i, j \in 1 .. Len(aresults) :
        /\ aresults[i].status = "success"
        /\ aresults[i].destination = Dest(".trash", "a", 1)
        /\ afs.at[Dest(".trash", "a", 1)] = "a"
        /\ afs.at[Dest(".trash", "a", 0)] = "old"
        /\ afs.at[Source("a")] = "none"
        /\ aresults[j].status = "error"

\* C29: an engine in dry-run mode never changes the filesystem (no file
\* moved, no folder created), and each of its results for a delete or
\* archive record has status dry_run and the destination <folder>/<name>.
C29_DryRunFrame ==
    /\ [][adry => afs' = afs]_vars
    /\ [](adry => \A i \in 1 .. Len(aresults) :
            LET rec == ToApply(arecs, afilter)[i]
            IN  rec.suggested_action \in {"delete", "archive"} =>
                    /\ aresults[i].status = "dry_run"
                    /\ aresults[i].destination =
                        Dest(IF rec.suggested_action = "delete" THEN ".trash" ELSE ".archive",
                             rec.file_path, 0))

\* a dry run over a delete and an archive record of existing files, with no
\* destination folder on disk before or after
C29_Witness ==
    /\ apc = "returned"
    /\ adry
    /\ afs.dirs = {}
    /\ afs.at[Source("a")] = "a"
    /\ afs.at[Source("b")] = "b"
    /\ Len(aresults) = 2
    /\ aresults[1] = ActionResult("a", ".trash", "dry_run", Dest(".trash", "a", 0), "")
    /\ aresults[2] = ActionResult("b", ".archive", "dry_run", Dest(".archive", "b", 0), "")

\* the action a result is for
ActionOf(result) ==
    IF result.action = ".trash" THEN "delete"
    ELSE IF result.action = ".archive" THEN "archive"
    ELSE result.action

\* C30: when apply_all was given an action_filter (an empty list included),
\* its results are for exactly the records whose suggested_action is in the
\* filter, and the counts of its summary add up to the number of results.
C30_FilterRespected ==
    apc = "returned" =>
        /\ afilter.given =>
            /\ \A i \in 1 .. Len(aresults) : ActionOf(aresults[i]) \in afilter.actions
            /\ Len(aresults) = Cardinality({i \in 1 .. Len(arecs) :
                                    arecs[i].suggested_action \in afilter.actions})
        /\ asummary.success + asummary.dry_run + asummary.skipped + asummary.error
                = Len(aresults)

(***************************************************************************)
(* Further properties of the batch driver.                                 *)
(***************************************************************************)
\* C31: the steps of one file follow one another: its classification is
\* requested only in the step in which its extraction returned (with text),
\* its write is handed over only once its decision exists (from the
\* classifier, or the fallback assigned when extraction returned no text),
\* and the row written carries that decision.
C31_StepsSequential ==
    /\ [][\A p \in Paths :
            /\ (tpc[p] # "classifying" /\ tpc'[p] = "classifying") =>
                    tpc[p] = "extracting" /\ ttext'[p] # "" /\ tdec'[p] = NoDecision
            /\ (tpc[p] # "inserting" /\ tpc'[p] = "inserting") =>
                    tpc[p] \in {"extracting", "classifying"} /\ tdec'[p] # NoDecision
            /\ store'[p] # store[p] =>
                    /\ tpc[p] = "inserting"
                    /\ tdec[p] # NoDecision
                    /\ store'[p].decision = tdec[p]]_vars
    /\ [](\A p \in Paths : tpc[p] \in {"inserting", "committing"} => tdec[p] # NoDecision)
    /\ [](\A p \in Paths : tpc[p] \in {"waiting", "extracting"} => tdec[p] = NoDecision)

\* one file's write is in progress with the classifier's decision while its
\* sibling is still being classified
C31_Witness ==
    \E p \in Paths, q \in Paths :
        /\ tpc[p] = "committing"
        /\ tdec[p].category = "legal"
        /\ store[p].decision = tdec[p]
        /\ tpc[q] = "classifying"
        /\ tdec[q] = NoDecision

\* the event sequences a file can have produced
EventOrders ==
    {<<>>, <<"extracting">>, <<"extracting", "classifying">>,
     <<"extracting", "classifying", "done">>, <<"extracting", "done">>}

IsIn(e, sq) == \E i \in 1 .. Len(sq) : sq[i] = e

\* C32: with a progress callback, the events of a file come in the order
\* extracting, classifying, done: 'extracting' on taking the slot,
\* 'classifying' only when extraction returned text (and then before the
\* classification), 'done' last and only in the step in which the file's
\* row was committed; a file whose pipeline raised has no 'done'.
C32_EventsOrdered ==
    /\ [](\A p \in Paths :
            /\ tev[p] \in EventOrders
            /\ tpc[p] \in {"extracting", "classifying", "inserting", "committing"} =>
                    tev[p][1] = "extracting"
            /\ IsIn("classifying", tev[p]) /\ tpc[p] \in {"classifying", "inserting", "committing"}
                    => ttext[p] # ""
            /\ tpc[p] \in {"inserting", "committing"} /\ ttext[p] = "" => tev[p] = <<"extracting">>
            /\ IsIn("done", tev[p]) =>
                    /\ tpc[p] = "done"
                    /\ committed[p] = FileRecord(files[p], store[p].extracted_text,
                                                 store[p].decision)
                    /\ p \in ResultPaths
            /\ tpc[p] = "failed" => ~IsIn("done", tev[p]))
    /\ [][\A p \in Paths : (~IsIn("done", tev[p]) /\ IsIn("done", tev'[p])) =>
            /\ tpc[p] = "committing"
            /\ committed'[p] = store[p]
            /\ store[p].processed_at]_vars

\* one file went through all three stages, its sibling had no text and
\* skipped 'classifying'; both are committed
C32_Witness ==
    /\ bphase = "returned"
    /\ \E p \in Paths, q \in Paths :
        /\ tev[p] = <<"extracting", "classifying", "done">>
        /\ tev[q] = <<"extracting", "done">>
        /\ committed[q].extracted_text = ""
        /\ committed[p].decision.category = "legal"

\* the write of path p is with the executor: handed over, or between its
\* INSERT and its commit
Writing(p) == tpc[p] \in {"inserting", "committing"}

\* C33: while the write of one task is in progress, a sibling that holds a
\* slot and is in its extraction or its classification can take that step.
C33_WriteOffLoop ==
    \A p \in Paths, q \in Paths :
        (bphase = "running" /\ Writing(p) /\ q # p) =>
            /\ tpc[q] = "extracting" => ENABLED Extract(q)
            /\ tpc[q] = "classifying" => ENABLED Classify(q)

\* a write is between INSERT and commit while the sibling, holding the other
\* slot, is in its extraction
C33_Witness ==
    /\ bphase = "running"
    /\ limit = 2
    /\ tpc[1] = "committing"
    /\ tpc[2] = "extracting"

\* C34: on a table that was empty before the run, a row is committed for a
\* path only if that path's own write (its INSERT and its commit) succeeded:
\* no file whose pipeline failed has a committed row.
C34_WritesIndependent ==
    \A p \in Paths : tpc[p] = "failed" => ~committed[p].processed_at

\* C35: a pipeline gives its slot back however it ends (returning, or
\* raising in the classification or in the write), so the free slots are
\* always the cap less the pipelines in flight, all K slots are free when
\* process_all has returned, and with every pipeline step ending a waiting
\* task comes to take a slot.
C35_GateNeverLeaks ==
    /\ [](bphase \in {"running", "returned"} => sem = limit - Cardinality(InFlight))
    /\ [](bphase = "returned" => sem = limit)
    /\ [][\A p \in Paths : (p \in InFlight /\ tpc'[p] \in {"done", "failed"}) =>
            sem' = sem + 1]_vars
    /\ \A p \in Paths : (tpc[p] = "waiting") ~> (tpc[p] \in {"extracting", "done", "failed"})

\* with one slot: the first pipeline failed in its write, the second in its
\* classification, and the run returned with the slot free
C35_Witness ==
    /\ bphase = "returned"
    /\ limit = 1
    /\ sem = 1
    /\ tpc[1] = "failed"
    /\ tev[1] = <<"extracting">>
    /\ tpc[2] = "failed"
    /\ tev[2] = <<"extracting", "classifying">>

\* the paths with a committed row
Persisted == {p \in Paths : committed[p].processed_at}

\* C36: when a run on a table that was empty has returned, the files in the
\* returned list are exactly the files with a committed row, and each
\* returned record is the committed row of its path.
C36_ReturnedIsPersisted ==
    bphase = "returned" =>
        /\ ResultPaths = Persisted
        /\ \A i \in 1 .. Len(results) : committed[results[i].file_path] = results[i].rec

\* C37: a file whose extraction returned no text goes on to the write with
\* the fallback decision; once written, its row has that decision and
\* processed_at, and the file is returned; a later run that is handed the
\* file with the fingerprint of its row launches no pipeline for it, so no
\* extraction ever runs for a file whose row holds its current fingerprint.
C37_FailedExtractionIsFinal ==
    /\ [][\A p \in Paths :
            (tpc[p] = "extracting" /\ tpc'[p] # "extracting" /\ ttext'[p] = "") =>
                tpc'[p] = "inserting" /\ tdec'[p] = NoTextDecision]_vars
    /\ [](\A p \in Paths : (tpc[p] = "done" /\ store[p].extracted_text = "") =>
            /\ store[p].decision = NoTextDecision
            /\ store[p].processed_at
            /\ \E i \in 1 .. Len(results) :
                    results[i].file_path = p /\ results[i].rec = store[p])
    /\ [][runs' # runs =>
            \A p \in Paths :
                (/\ store[p].processed_at
                 /\ store[p].extracted_text = ""
                 /\ files'[p] = store[p].file_hash) => tpc'[p] = "none"]_vars
    /\ [](\A p \in Paths : tpc[p] = "extracting" =>
            ~(store[p].processed_at /\ store[p].file_hash = files[p]))

\* the second run was handed the file whose extraction had failed in the
\* first, unchanged, and returned at once with nothing launched
C37_Witness ==
    /\ runs = 2
    /\ bphase = "returned"
    /\ results = <<>>
    /\ \E p \in Paths :
        /\ files[p] # 0
        /\ tpc[p] = "none"
        /\ committed[p].processed_at
        /\ committed[p].file_hash = files[p]
        /\ committed[p].extracted_text = ""
        /\ committed[p].decision = Fallback(Reason("No text extracted from document"))

\* the texts of the rows and of the returned records
StoredTexts ==
    {store[p].extracted_text : p \in Paths} \cup {committed[p].extracted_text : p \in Paths}
        \cup {results[i].rec.extracted_text : i \in 1 .. Len(results)}

\* C40: no row of the table and no returned record holds more than the
\* first TEXT_KEPT characters of an extraction text: the row a task writes
\* has the text itself when that is short, its first TEXT_KEPT characters
\* when it is longer, and the empty string when extraction gave no text.
C40_TextTruncated ==
    /\ [](\A t \in StoredTexts : TextLength(t) <= TEXT_KEPT /\ t # LongText)
    /\ [][\A p \in Paths : store'[p] # store[p] =>
            /\ ttext[p] = "" => store'[p].extracted_text = ""
            /\ TextLength(ttext[p]) <= TEXT_KEPT => store'[p].extracted_text = ttext[p]
            /\ ttext[p] = LongText => store'[p].extracted_text = FirstChars]_vars

\* a long text was extracted and classified; its row and its returned record
\* hold the first TEXT_KEPT characters
C40_Witness ==
    /\ bphase = "returned"
    /\ \E i \in 1 .. Len(results) :
        /\ results[i].rec.extracted_text = FirstChars
        /\ committed[results[i].file_path].extracted_text = FirstChars
        /\ results[i].rec.decision.category = "legal"

\* C38: a call of process_all launches a pipeline for exactly the files of
\* its scan whose fingerprint has no processed row when the call is made
\* (each such file, also when two of them share a fingerprint), and between
\* that moment and the next call the set of launched files does not change,
\* whatever is persisted meanwhile.
C38_FilterOnce ==
    /\ [][runs' # runs =>
            \A p \in Paths :
                IF files'[p] # 0
                    /\ \A q \in Paths : store[q].processed_at => store[q].file_hash # files'[p]
                THEN tpc'[p] = "waiting"
                ELSE tpc'[p] = "none"]_vars
    /\ [][runs' = runs =>
            /\ files' = files
            /\ \A p \in Paths : (tpc[p] = "none") <=> (tpc'[p] = "none")]_vars

\* two files with the same fingerprint, unknown to the table when the run
\* began: the first is committed while the second is still in its pipeline
C38_Witness ==
    /\ bphase = "running"
    /\ files[1] = files[2]
    /\ tpc[1] = "done"
    /\ committed[1].file_hash = files[2]
    /\ tpc[2] = "classifying"

\* the names <name>, <name>_1, ... taken for nm in folder
Taken(fs, folder, nm) ==
    {k \in 0 .. MaxSuffix + MaxRecords : fs.at[Dest(folder, nm, k)] # "none"}

\* C39: in apply mode a move that succeeds puts the file at a name that was
\* free, the first free one of <name>, <name>_1, <name>_2, ..., and leaves
\* every file already in the folder in place, so the folder keeps them all;
\* a move whose source is missing returns an error result and changes
\* nothing, the destination folder is not even created.
C39_NoOverwrite ==
    [][(~adry /\ Len(aresults') > Len(aresults)) =>
        LET res == aresults'[Len(aresults')]
            rec == ToApply(arecs, afilter)[Len(aresults')]
            nm == rec.file_path
        IN  /\ \A l \in Locs : (l.dir \in Folders /\ afs.at[l] # "none") =>
                    afs'.at[l] = afs.at[l]
            /\ res.status = "success" =>
                    /\ res.destination.dir \in Folders
                    /\ res.destination.name = nm
                    /\ afs.at[res.destination] = "none"
                    /\ afs'.at[res.destination] = afs.at[Source(nm)]
                    /\ \A k \in 0 .. res.destination.n - 1 :
                            k \in Taken(afs, res.destination.dir, nm)
                    /\ Taken(afs', res.destination.dir, nm) =
                            Taken(afs, res.destination.dir, nm) \cup {res.destination.n}
            /\ (rec.suggested_action \in {"delete", "archive"}
                    /\ afs.at[Source(nm)] = "none") =>
                    /\ res.status = "error"
                    /\ res.error = "Source file not found"
                    /\ afs' = afs
    ]_vars

\* b went to .archive as b_2 beside b and b_1, and the delete of the missing
\* a gave an error
C39_Witness ==
    /\ apc = "returned"
    /\ ~adry
    /\ Taken(afs, ".archive", "b") = {0, 1, 2}
    /\ afs.at[Dest(".archive", "b", 2)] = "b"
    /\ afs.at[Dest(".archive", "b", 0)] = "old"
    /\ \E i \in 1 .. Len(aresults) :
        aresults[i] = ActionResult("a", ".trash", "error", NoDest, "Source file not found")
====
